---- MODULE Spec2Model ----
(***************************************************************************)
(* Theme-colour extraction and application pipeline (theme_extractor.py).  *)
(*                                                                         *)
(* Text that the program transforms character by character (hex values,   *)
(* archive member names, attribute values) is a sequence of one-character  *)
(* strings.  Names the program only compares for equality (tag names,      *)
(* dictionary keys, file-system paths of the caller) are TLA+ strings.     *)
(***************************************************************************)
EXTENDS Integers, Sequences, FiniteSets, TLC

VARIABLES
    fs,             \* the file system: caller path -> file content, or NoFile
    template_path,  \* ThemeColorExtractor.template_path (NoPath: no extractor built)
    theme_colors,   \* ThemeColorExtractor.theme_colors (insertion-ordered dict)
    theme_name,     \* ThemeColorExtractor.theme_name
    font_scheme,    \* ThemeColorExtractor.font_scheme (insertion-ordered dict)
    raw_theme_xml,  \* ThemeColorExtractor.raw_theme_xml
    applier_colors, \* ThemeApplier.theme_colors (None: no applier built)
    calls,          \* the number of operations called so far
    op,             \* the last operation called, its arguments and the files before it
    ret,            \* what the last operation returned (None if it raised)
    err,            \* the exception the last operation raised ("none" if it returned)
    log             \* the file-system events of the last operation, in order

vars == <<fs, template_path, theme_colors, theme_name, font_scheme, raw_theme_xml,
          applier_colors, calls, op, ret, err, log>>

None == <<"None">>               \* Python's None where a string is expected
NoPath == "<none>"               \* no path given / no object built
NoXml == [kind |-> "none"]       \* raw_theme_xml = None
NoFile == [kind |-> "nofile"]    \* the path does not exist on disk
NoOp == [name |-> "none"]

-----------------------------------------------------------------------------
(* Bounds of the model                                                     *)

MaxElems == 2         \* role elements in the first colour scheme of a sampled theme
MaxMembers == 2       \* members of a sampled archive
MaxCalls == 3         \* operations called on the extractor in one run
MaxApplierCalls == 1  \* copy or patch operations in one run
MaxIndex == 40        \* indexes handed to get_accent_color: -MaxIndex..MaxIndex
MaxFragments == 2     \* fragments a sampled script is joined from

-----------------------------------------------------------------------------
(* Strings: str.upper, str.lower, `in`, startswith, endswith               *)

LowerLetters == <<"a", "b", "c", "d", "e", "f", "g", "h", "i", "j", "k", "l", "m",
                  "n", "o", "p", "q", "r", "s", "t", "u", "v", "w", "x", "y", "z">>
UpperLetters == <<"A", "B", "C", "D", "E", "F", "G", "H", "I", "J", "K", "L", "M",
                  "N", "O", "P", "Q", "R", "S", "T", "U", "V", "W", "X", "Y", "Z">>

\* c.upper() and c.lower() of one character
UpperCharMap ==
    [c \in {LowerLetters[i] : i \in 1..Len(LowerLetters)} |->
        UpperLetters[CHOOSE i \in 1..Len(LowerLetters) : LowerLetters[i] = c]]

LowerCharMap ==
    [c \in {UpperLetters[i] : i \in 1..Len(UpperLetters)} |->
        LowerLetters[CHOOSE i \in 1..Len(UpperLetters) : UpperLetters[i] = c]]

UpperChar(c) == IF c \in DOMAIN UpperCharMap THEN UpperCharMap[c] ELSE c

LowerChar(c) == IF c \in DOMAIN LowerCharMap THEN LowerCharMap[c] ELSE c

\* the text as it is, without str.upper()
UpperAsIs(s) == s

Upper(s) == [i \in 1..Len(s) |-> UpperChar(s[i])]

Lower(s) == [i \in 1..Len(s) |-> LowerChar(s[i])]

StartsWith(s, prefix) ==
    /\ Len(prefix) <= Len(s)
    /\ SubSeq(s, 1, Len(prefix)) = prefix

EndsWith(s, suffix) ==
    /\ Len(suffix) <= Len(s)
    /\ SubSeq(s, Len(s) - Len(suffix) + 1, Len(s)) = suffix

Contains(s, sub) ==
    LET str == s
    IN  \E i \in 1..(Len(str) - Len(sub) + 1) : SubSeq(str, i, i + Len(sub) - 1) = sub

\* s[a:b] of Python, a and b zero-based, clipped to the string
Slice(s, a, b) == SubSeq(s, a + 1, IF b < Len(s) THEN b ELSE Len(s))

HexDigits == {"0", "1", "2", "3", "4", "5", "6", "7", "8", "9",
              "a", "b", "c", "d", "e", "f", "A", "B", "C", "D", "E", "F"}

\* int(s, 16) returns (does not raise ValueError); the sampled text holds no
\* sign, blank, underscore or "0x" prefix
IntParses(s) == Len(s) >= 1 /\ \A i \in 1..Len(s) : s[i] \in HexDigits

-----------------------------------------------------------------------------
(* Python dict: insertion-ordered, a sequence of <<key, value>> pairs      *)

EmptyDict == <<>>

DictKeys(d) == {d[i][1] : i \in 1..Len(d)}

DictHas(d, k) == k \in DictKeys(d)

DictPos(d, k) == CHOOSE i \in 1..Len(d) : d[i][1] = k

\* d.get(k, default)
DictGet(d, k, default) == IF DictHas(d, k) THEN d[DictPos(d, k)][2] ELSE default

\* d[k] = v kept as one more pair even when the key is there already
DictSetAppending(d, k, v) == Append(d, <<k, v>>)

\* d[k] = v : an existing key keeps its position
DictSet(d, k, v) ==
    IF DictHas(d, k)
    THEN [i \in 1..Len(d) |-> IF d[i][1] = k THEN <<k, v>> ELSE d[i]]
    ELSE Append(d, <<k, v>>)

-----------------------------------------------------------------------------
(* XML elements: tag = {ns}local, attributes, children in document order   *)

A_NS == "http://schemas.openxmlformats.org/drawingml/2006/main"

E(ns, local, attrs, children) ==
    [ns |-> ns, local |-> local, attrs |-> attrs, children |-> children]

NoAttrs == <<>>

\* elem.get(key, default)
AttrGet(elem, key, default) ==
    IF \E i \in 1..Len(elem.attrs) : elem.attrs[i][1] = key
    THEN elem.attrs[CHOOSE i \in 1..Len(elem.attrs) : elem.attrs[i][1] = key][2]
    ELSE default

\* elem.tag.split('}')[-1] if '}' in elem.tag else elem.tag
TagLocal(elem) == elem.local

RECURSIVE IterSeq(_)
\* root.iter(): the element and all its descendants in document order
Iter(elem) == <<elem>> \o IterSeq(elem.children)
IterSeq(elems) ==
    IF elems = <<>> THEN <<>>
    ELSE Iter(Head(elems)) \o IterSeq(Tail(elems))

-----------------------------------------------------------------------------
(* ThemeColorExtractor                                                     *)

COLOR_NAMES == <<"dk1", "lt1", "dk2", "lt2",
                 "accent1", "accent2", "accent3", "accent4", "accent5", "accent6",
                 "hlink", "folHlink">>

Roles == {COLOR_NAMES[i] : i \in 1..Len(COLOR_NAMES)}

THEME1_PATH == <<"p", "p", "t", "/", "t", "h", "e", "m", "e", "/",
                 "t", "h", "e", "m", "e", "1", ".", "x", "m", "l">>
STR_THEME == <<"t", "h", "e", "m", "e">>
EXT_XML == <<".", "x", "m", "l">>
UNKNOWN_THEME == <<"U", "n", "k", "n", "o", "w", "n", " ", "T", "h", "e", "m", "e">>

\* zf.namelist()
NameList(zip) == [i \in 1..Len(zip.members) |-> zip.members[i].name]

InList(x, list) == \E i \in 1..Len(list) : list[i] = x

IsThemeFile(f) == Contains(Lower(f), STR_THEME) /\ EndsWith(f, EXT_XML)

\* the first theme file of the listing, the conventional path given no priority
find_theme_path_first_match(zip) ==
    LET theme_files == SelectSeq(NameList(zip), IsThemeFile)
    IN  IF theme_files # <<>> THEN theme_files[1] ELSE None

find_theme_path(zip) ==
    IF InList(THEME1_PATH, NameList(zip)) THEN THEME1_PATH
    ELSE LET theme_files == SelectSeq(NameList(zip), IsThemeFile)
         IN  IF theme_files # <<>> THEN theme_files[1] ELSE None

\* zf.read(name): the data of the member of that name
ZipRead(zip, name) ==
    zip.members[CHOOSE i \in 1..Len(zip.members) : zip.members[i].name = name].data

RECURSIVE extract_color_value_val_only(_)
\* the value of a system colour read from `val`, its symbolic name
extract_color_value_val_only(children) ==
    IF children = <<>> THEN None
    ELSE LET child == Head(children)
         IN  IF TagLocal(child) \in {"srgbClr", "sysClr"}
             THEN Upper(AttrGet(child, "val", <<>>))
             ELSE extract_color_value_val_only(Tail(children))

RECURSIVE extract_color_value_from(_)
extract_color_value_from(children) ==
    IF children = <<>> THEN None
    ELSE LET child == Head(children)
         IN  IF TagLocal(child) = "srgbClr" THEN Upper(AttrGet(child, "val", <<>>))
             ELSE IF TagLocal(child) = "sysClr"
                  THEN Upper(AttrGet(child, "lastClr", <<>>))
                  ELSE extract_color_value_from(Tail(children))

extract_color_value(color_elem) == extract_color_value_from(color_elem.children)

\* `if color_value:` : neither None nor the empty string
Truthy(v) == v # None /\ v # <<>>

RECURSIVE parse_color_scheme_keep_empty(_, _)
\* the colour scheme parsed without the `if color_value:` test on the value
parse_color_scheme_keep_empty(children, colors) ==
    IF children = <<>> THEN colors
    ELSE LET child == Head(children)
             color_value == extract_color_value(child)
             colors1 == IF TagLocal(child) \in Roles /\ color_value # None
                        THEN DictSet(colors, TagLocal(child), color_value)
                        ELSE colors
         IN  parse_color_scheme_keep_empty(Tail(children), colors1)

RECURSIVE parse_color_scheme_from(_, _)
parse_color_scheme_from(children, colors) ==
    IF children = <<>> THEN colors
    ELSE LET child == Head(children)
             color_value == extract_color_value(child)
             colors1 == IF TagLocal(child) \in Roles /\ Truthy(color_value)
                        THEN DictSet(colors, TagLocal(child), color_value)
                        ELSE colors
         IN  parse_color_scheme_from(Tail(children), colors1)

RECURSIVE parse_color_scheme_first_wins(_, _)
\* the colour scheme parsed without overwriting a role that already has a value
parse_color_scheme_first_wins(clr_scheme, colors) ==
    IF clr_scheme.children = <<>> THEN colors
    ELSE LET child == Head(clr_scheme.children)
             color_value == extract_color_value(child)
             colors1 == IF /\ TagLocal(child) \in Roles
                           /\ Truthy(color_value)
                           /\ ~DictHas(colors, TagLocal(child))
                        THEN DictSet(colors, TagLocal(child), color_value)
                        ELSE colors
         IN  parse_color_scheme_first_wins(
                 [clr_scheme EXCEPT !.children = Tail(@)], colors1)

parse_color_scheme(clr_scheme, colors) ==
    parse_color_scheme_from(clr_scheme.children, colors)

RECURSIVE parse_font_role_keep_empty(_, _, _)
\* the font role parsed without the `if typeface:` test
parse_font_role_keep_empty(font_children, role, fonts) ==
    IF font_children = <<>> THEN fonts
    ELSE LET font_child == Head(font_children)
             fonts1 == IF TagLocal(font_child) = "latin"
                       THEN DictSet(fonts, role, AttrGet(font_child, "typeface", <<>>))
                       ELSE fonts
         IN  parse_font_role_keep_empty(Tail(font_children), role, fonts1)

RECURSIVE parse_font_role(_, _, _)
parse_font_role(font_children, role, fonts) ==
    IF font_children = <<>> THEN fonts
    ELSE LET font_child == Head(font_children)
             typeface == AttrGet(font_child, "typeface", <<>>)
             fonts1 == IF TagLocal(font_child) = "latin" /\ typeface # <<>>
                       THEN DictSet(fonts, role, typeface)
                       ELSE fonts
         IN  parse_font_role(Tail(font_children), role, fonts1)

RECURSIVE parse_font_scheme_from(_, _)
parse_font_scheme_from(children, fonts) ==
    IF children = <<>> THEN fonts
    ELSE LET child == Head(children)
             fonts1 == IF TagLocal(child) \in {"majorFont", "minorFont"}
                       THEN parse_font_role(child.children, TagLocal(child), fonts)
                       ELSE fonts
         IN  parse_font_scheme_from(Tail(children), fonts1)

parse_font_scheme(font_scheme_elem, fonts) ==
    parse_font_scheme_from(font_scheme_elem.children, fonts)

RECURSIVE parse_theme_elements_from(_, _)
\* the pair <<theme_colors, font_scheme>> after visiting the elements in order
parse_theme_elements_from(elems, acc) ==
    IF elems = <<>> THEN acc
    ELSE LET elem == Head(elems)
             acc1 == IF TagLocal(elem) = "clrScheme"
                     THEN <<parse_color_scheme(elem, acc[1]), acc[2]>>
                     ELSE IF TagLocal(elem) = "fontScheme"
                          THEN <<acc[1], parse_font_scheme(elem, acc[2])>>
                          ELSE acc
         IN  parse_theme_elements_from(Tail(elems), acc1)

parse_theme_elements(root, colors, fonts) ==
    parse_theme_elements_from(Iter(root), <<colors, fonts>>)

DEF_dk1 == <<"0", "0", "0", "0", "0", "0">>
DEF_lt1 == <<"F", "F", "F", "F", "F", "F">>
DEF_dk2 == <<"1", "F", "4", "9", "7", "D">>
DEF_lt2 == <<"E", "E", "E", "C", "E", "1">>
DEF_accent1 == <<"4", "F", "8", "1", "B", "D">>
DEF_accent2 == <<"C", "0", "5", "0", "4", "D">>
DEF_accent3 == <<"9", "B", "B", "B", "5", "9">>
DEF_accent4 == <<"8", "0", "6", "4", "A", "2">>
DEF_accent5 == <<"4", "B", "A", "C", "C", "6">>
DEF_accent6 == <<"F", "7", "9", "6", "4", "6">>
DEF_hlink == <<"0", "0", "0", "0", "F", "F">>
DEF_folHlink == <<"8", "0", "0", "0", "8", "0">>

\* the mapper with one slot reading its neighbour's role
get_color_mapping_swapped(colors) == <<
    <<"primary_dark",       DictGet(colors, "dk1", DEF_dk1)>>,
    <<"primary_light",      DictGet(colors, "lt1", DEF_lt1)>>,
    <<"secondary_dark",     DictGet(colors, "dk2", DEF_dk2)>>,
    <<"secondary_light",    DictGet(colors, "lt2", DEF_lt2)>>,
    <<"accent1",            DictGet(colors, "accent1", DEF_accent1)>>,
    <<"accent2",            DictGet(colors, "accent2", DEF_accent2)>>,
    <<"accent3",            DictGet(colors, "accent3", DEF_accent3)>>,
    <<"accent4",            DictGet(colors, "accent4", DEF_accent4)>>,
    <<"accent5",            DictGet(colors, "accent5", DEF_accent5)>>,
    <<"accent6",            DictGet(colors, "accent6", DEF_accent6)>>,
    <<"hyperlink",          DictGet(colors, "folHlink", DEF_hlink)>>,
    <<"followed_hyperlink", DictGet(colors, "folHlink", DEF_folHlink)>> >>

get_color_mapping(colors) == <<
    <<"primary_dark",       DictGet(colors, "dk1", DEF_dk1)>>,
    <<"primary_light",      DictGet(colors, "lt1", DEF_lt1)>>,
    <<"secondary_dark",     DictGet(colors, "dk2", DEF_dk2)>>,
    <<"secondary_light",    DictGet(colors, "lt2", DEF_lt2)>>,
    <<"accent1",            DictGet(colors, "accent1", DEF_accent1)>>,
    <<"accent2",            DictGet(colors, "accent2", DEF_accent2)>>,
    <<"accent3",            DictGet(colors, "accent3", DEF_accent3)>>,
    <<"accent4",            DictGet(colors, "accent4", DEF_accent4)>>,
    <<"accent5",            DictGet(colors, "accent5", DEF_accent5)>>,
    <<"accent6",            DictGet(colors, "accent6", DEF_accent6)>>,
    <<"hyperlink",          DictGet(colors, "hlink", DEF_hlink)>>,
    <<"followed_hyperlink", DictGet(colors, "folHlink", DEF_folHlink)>> >>

\* the extractor object: its five fields
Extractor ==
    [template_path |-> template_path, theme_colors |-> theme_colors,
     theme_name |-> theme_name, font_scheme |-> font_scheme,
     raw_theme_xml |-> raw_theme_xml]

Ev(ev, path) == [ev |-> ev, path |-> path]

NoErr == "none"
ERR_TEMPLATE == "FileNotFoundError: Template not found"
ERR_NO_THEME == "FileNotFoundError: No theme file found in template"
ERR_ENOENT == "FileNotFoundError: No such file or directory"
ERR_PARSE == "ParseError"
ERR_VALUE == "ValueError"

NotFoundErrors == {ERR_TEMPLATE, ERR_NO_THEME, ERR_ENOENT}

\* the constructor without its test that the path exists
construct_unchecked(fsys, path) ==
    [self |-> [template_path |-> path, theme_colors |-> EmptyDict,
               theme_name |-> <<>>, font_scheme |-> EmptyDict,
               raw_theme_xml |-> NoXml],
     ret |-> None, err |-> NoErr, log |-> <<>>]

\* ThemeColorExtractor(template_path): the new object, or the exception
construct(fsys, path) ==
    IF fsys[path] = NoFile
    THEN [self |-> [template_path |-> NoPath, theme_colors |-> EmptyDict,
                    theme_name |-> <<>>, font_scheme |-> EmptyDict,
                    raw_theme_xml |-> NoXml],
          ret |-> None, err |-> ERR_TEMPLATE, log |-> <<>>]
    ELSE [self |-> [template_path |-> path, theme_colors |-> EmptyDict,
                    theme_name |-> <<>>, font_scheme |-> EmptyDict,
                    raw_theme_xml |-> NoXml],
          ret |-> None, err |-> NoErr, log |-> <<>>]

\* extract() returning the colours it holds when the archive has no theme
extract_tolerant(fsys, self) ==
    LET file == fsys[self.template_path]
    IN  IF file = NoFile
        THEN [self |-> self, ret |-> None, err |-> ERR_ENOENT, log |-> <<>>]
        ELSE
        LET theme_path == find_theme_path(file)
            opened == <<Ev("open", self.template_path)>>
        IN  IF theme_path = None
            THEN [self |-> self, ret |-> self.theme_colors, err |-> NoErr,
                  log |-> opened]
            ELSE
            LET raw == ZipRead(file, theme_path)
                self1 == [self EXCEPT !.raw_theme_xml = raw]
                root == raw.root
                parsed == parse_theme_elements(root, self.theme_colors,
                                               self.font_scheme)
                self2 == [self1 EXCEPT
                             !.theme_name = AttrGet(root, "name", UNKNOWN_THEME),
                             !.theme_colors = parsed[1],
                             !.font_scheme = parsed[2]]
            IN  [self |-> self2, ret |-> parsed[1], err |-> NoErr, log |-> opened]

\* self.extract(): the object afterwards, the returned dict or the exception
extract(fsys, self) ==
    LET file == fsys[self.template_path]
    IN  IF file = NoFile
        THEN [self |-> self, ret |-> None, err |-> ERR_ENOENT, log |-> <<>>]
        ELSE
        LET theme_path == find_theme_path(file)
            opened == <<Ev("open", self.template_path)>>
        IN  IF theme_path = None
            THEN [self |-> self, ret |-> None, err |-> ERR_NO_THEME, log |-> opened]
            ELSE
            LET raw == ZipRead(file, theme_path)
                self1 == [self EXCEPT !.raw_theme_xml = raw]
            IN  IF raw.kind # "xml"
                THEN [self |-> self1, ret |-> None, err |-> ERR_PARSE, log |-> opened]
                ELSE
                LET root == raw.root
                    parsed == parse_theme_elements(root, self.theme_colors,
                                                   self.font_scheme)
                    self2 == [self1 EXCEPT
                                 !.theme_name = AttrGet(root, "name", UNKNOWN_THEME),
                                 !.theme_colors = parsed[1],
                                 !.font_scheme = parsed[2]]
                IN  [self |-> self2, ret |-> parsed[1], err |-> NoErr, log |-> opened]

SHARP == <<"#">>

\* the module with its two text colours taken from the wrong backgrounds
PythonConfigTextSwapped(self, mapping, now) ==
    [kind |-> "py",
     source_template |-> self.template_path,
     theme_name |-> self.theme_name,
     extracted |-> now,
     THEME_COLORS_RAW |-> self.theme_colors,
     THEME_COLORS |-> mapping,
     ACCENT_COLORS |-> <<SHARP \o DictGet(mapping, "accent1", None),
                         SHARP \o DictGet(mapping, "accent2", None),
                         SHARP \o DictGet(mapping, "accent3", None),
                         SHARP \o DictGet(mapping, "accent4", None),
                         SHARP \o DictGet(mapping, "accent5", None),
                         SHARP \o DictGet(mapping, "accent6", None)>>,
     THEME_FONTS |-> self.font_scheme,
     PRIMARY_COLOR |-> SHARP \o DictGet(mapping, "accent1", None),
     DARK_BACKGROUND |-> SHARP \o DictGet(mapping, "primary_dark", None),
     LIGHT_BACKGROUND |-> SHARP \o DictGet(mapping, "primary_light", None),
     TEXT_ON_LIGHT |-> SHARP \o DictGet(mapping, "primary_light", None),
     TEXT_ON_DARK |-> SHARP \o DictGet(mapping, "primary_dark", None)]

\* the text of the generated module: its header lines and its declarations
PythonConfig(self, mapping, now) ==
    [kind |-> "py",
     source_template |-> self.template_path,
     theme_name |-> self.theme_name,
     extracted |-> now,
     THEME_COLORS_RAW |-> self.theme_colors,
     THEME_COLORS |-> mapping,
     ACCENT_COLORS |-> <<SHARP \o DictGet(mapping, "accent1", None),
                         SHARP \o DictGet(mapping, "accent2", None),
                         SHARP \o DictGet(mapping, "accent3", None),
                         SHARP \o DictGet(mapping, "accent4", None),
                         SHARP \o DictGet(mapping, "accent5", None),
                         SHARP \o DictGet(mapping, "accent6", None)>>,
     THEME_FONTS |-> self.font_scheme,
     PRIMARY_COLOR |-> SHARP \o DictGet(mapping, "accent1", None),
     DARK_BACKGROUND |-> SHARP \o DictGet(mapping, "primary_dark", None),
     LIGHT_BACKGROUND |-> SHARP \o DictGet(mapping, "primary_light", None),
     TEXT_ON_LIGHT |-> SHARP \o DictGet(mapping, "primary_dark", None),
     TEXT_ON_DARK |-> SHARP \o DictGet(mapping, "primary_light", None)]

JsonConfig(self, now) ==
    [kind |-> "json",
     source_template |-> self.template_path,
     theme_name |-> self.theme_name,
     extracted_date |-> now,
     raw_colors |-> self.theme_colors,
     semantic_mapping |-> get_color_mapping(self.theme_colors),
     fonts |-> self.font_scheme]

\* the extraction run only when no extraction has been made yet, whatever it
\* found
extract_if_unextracted(fsys, self) ==
    IF self.raw_theme_xml = NoXml THEN extract(fsys, self)
    ELSE [self |-> self, ret |-> None, err |-> NoErr, log |-> <<>>]

\* `if not self.theme_colors: self.extract()`
extract_if_empty(fsys, self) ==
    IF self.theme_colors = EmptyDict THEN extract(fsys, self)
    ELSE [self |-> self, ret |-> None, err |-> NoErr, log |-> <<>>]

generate_python_config(fsys, self, output_path, now) ==
    LET ex == extract_if_empty(fsys, self)
    IN  IF ex.err # NoErr
        THEN [fs |-> fsys, self |-> ex.self, ret |-> None, err |-> ex.err,
              log |-> ex.log]
        ELSE [fs |-> [fsys EXCEPT ![output_path] =
                         PythonConfig(ex.self, get_color_mapping(ex.self.theme_colors),
                                      now)],
              self |-> ex.self, ret |-> output_path, err |-> NoErr,
              log |-> Append(ex.log, Ev("write", output_path))]

generate_json_config(fsys, self, output_path, now) ==
    LET ex == extract_if_empty(fsys, self)
    IN  IF ex.err # NoErr
        THEN [fs |-> fsys, self |-> ex.self, ret |-> None, err |-> ex.err,
              log |-> ex.log]
        ELSE [fs |-> [fsys EXCEPT ![output_path] = JsonConfig(ex.self, now)],
              self |-> ex.self, ret |-> output_path, err |-> NoErr,
              log |-> Append(ex.log, Ev("write", output_path))]

-----------------------------------------------------------------------------
(* Extracted archives: a directory tree is the set of its entries          *)

SLASH == <<"/">>
THEME_DIR == <<"p", "p", "t", "/", "t", "h", "e", "m", "e", "/">>
MASTERS_DIR == <<"p", "p", "t", "/", "s", "l", "i", "d", "e", "M", "a", "s", "t", "e", "r", "s", "/">>
LAYOUTS_DIR == <<"p", "p", "t", "/", "s", "l", "i", "d", "e", "L", "a", "y", "o", "u", "t", "s", "/">>

\* zf.extractall(dir): one entry per member name, a later member of the same
\* name overwriting an earlier one
ExtractAll(zip) ==
    {zip.members[i] : i \in {k \in 1..Len(zip.members) :
        \A j \in (k + 1)..Len(zip.members) : zip.members[j].name # zip.members[k].name}}

\* (dir).exists() for a directory path ending in "/"
DirExists(tree, dir) == \E e \in tree : StartsWith(e.name, dir)

Under(tree, dir) == {e \in tree : StartsWith(e.name, dir)}

\* the template's folder copied over the target's without removing it first
MergeSubtree(template_tree, target_tree, dir) ==
    IF DirExists(template_tree, dir)
    THEN {e \in target_tree : \A t \in Under(template_tree, dir) : t.name # e.name}
         \cup Under(template_tree, dir)
    ELSE target_tree

\* the target's folder removed whether or not the template has one
ReplaceSubtreeAlways(template_tree, target_tree, dir) ==
    (target_tree \ Under(target_tree, dir)) \cup Under(template_tree, dir)

\* the target's whole tree removed, not only its folder, before the copy
ReplaceSubtreeOnly(template_tree, target_tree, dir) ==
    IF DirExists(template_tree, dir) THEN Under(template_tree, dir) ELSE target_tree

\* the template's folder copied without replacing the files the target has
ReplaceSubtreeKeeping(template_tree, target_tree, dir) ==
    IF DirExists(template_tree, dir)
    THEN target_tree
         \cup {t \in Under(template_tree, dir) : \A e \in target_tree : e.name # t.name}
    ELSE target_tree

\* if template_folder.exists(): rmtree(target_folder) if it exists; copytree
ReplaceSubtree(template_tree, target_tree, dir) ==
    IF DirExists(template_tree, dir)
    THEN (target_tree \ Under(target_tree, dir)) \cup Under(template_tree, dir)
    ELSE target_tree

Files(tree) == {e \in tree : e.data.kind # "dir"}

\* the directories on the way to a file, "" (the top) included
DirsOf(name) == {SubSeq(name, 1, i) : i \in {k \in 0..Len(name) : k = 0 \/ name[k] = "/"}}

DirectlyIn(name, dir) ==
    /\ StartsWith(name, dir)
    /\ ~Contains(SubSeq(name, Len(dir) + 1, Len(name)), SLASH)

RECURSIVE Perms(_)
Perms(S) ==
    IF S = {} THEN {<<>>}
    ELSE UNION {{<<x>> \o rest : rest \in Perms(S \ {x})} : x \in S}

\* os.walk(top): a directory's own files come first, in any order, then each
\* sub-directory in turn, in any order; the listing order is the file system's
IsWalkOrder(order) ==
    \A dir \in UNION {DirsOf(order[i].name) : i \in 1..Len(order)} :
        LET inside == {i \in 1..Len(order) : StartsWith(order[i].name, dir)}
        IN  /\ \A i \in inside : \A j \in inside : \A k \in i..j : k \in inside
            /\ \A i \in inside : \A j \in inside :
                   (DirectlyIn(order[i].name, dir) /\ ~DirectlyIn(order[j].name, dir))
                       => i < j

\* the archives a re-zip of the tree can produce
Repackaged(tree) ==
    {[kind |-> "zip", members |-> order] :
        order \in {o \in Perms(Files(tree)) : IsWalkOrder(o)}}

-----------------------------------------------------------------------------
(* ThemeApplier                                                            *)

\* the output path ignored: the result always goes over the target
OrPathIgnored(output_path, default) == default

\* `output_path or target_pptx_path`
OrPath(output_path, default) ==
    IF output_path = NoPath \/ output_path = "" THEN default ELSE output_path

\* a temporary directory that is removed only when the body returns normally
with_temp_dir_leaky(outcomes) ==
    {[o EXCEPT !.log = <<Ev("mkdtemp", "")>> \o @
                       \o (IF o.err = NoErr THEN <<Ev("rmtemp", "")>> ELSE <<>>)] :
        o \in outcomes}

\* `with tempfile.TemporaryDirectory() as temp_dir:` around the outcomes of its
\* body: the directory is created on entry and removed on exit, whether the
\* body returns or raises
with_temp_dir(outcomes) ==
    {[o EXCEPT !.log = <<Ev("mkdtemp", "")>> \o @ \o <<Ev("rmtemp", "")>>] :
        o \in outcomes}

\* the target's extracted tree after the three folders were replaced
copied_tree(template_dir, target_dir) ==
    ReplaceSubtree(template_dir,
        ReplaceSubtree(template_dir,
            ReplaceSubtree(template_dir, target_dir, THEME_DIR),
            MASTERS_DIR),
        LAYOUTS_DIR)

\* the outcomes of copy_theme_from_template(template_path, target_pptx_path,
\* output_path): the file system afterwards, the return value or the exception
copy_theme_from_template(fsys, template, target, output_arg) ==
    with_temp_dir(
        LET output_path == OrPath(output_arg, target)
        IN  IF fsys[template] = NoFile
            THEN {[fs |-> fsys, ret |-> None, err |-> ERR_ENOENT, log |-> <<>>]}
            ELSE
            LET template_dir == ExtractAll(fsys[template])
                log1 == <<Ev("open", template), Ev("extractall", template)>>
            IN  IF fsys[target] = NoFile
                THEN {[fs |-> fsys, ret |-> None, err |-> ERR_ENOENT, log |-> log1]}
                ELSE
                LET target_dir == ExtractAll(fsys[target])
                    log2 == log1 \o <<Ev("open", target), Ev("extractall", target)>>
                    with_layouts == copied_tree(template_dir, target_dir)
                IN  {[fs |-> [fsys EXCEPT ![output_path] = zip],
                      ret |-> output_path, err |-> NoErr,
                      log |-> log2 \o <<Ev("write", output_path)>>] :
                        zip \in Repackaged(with_layouts)})

\* ET.SubElement(child, a_ns + 'srgbClr'); new_color.set('val', hex_value)
NewSrgbClr(hex_value) == E(A_NS, "srgbClr", <<<<"val", hex_value>>>>, <<>>)

RECURSIVE update_role_appending(_, _, _)
\* the new srgbClr child added without clearing the existing children
update_role_appending(children, color_name, hex_value) ==
    IF children = <<>> THEN <<>>
    ELSE IF TagLocal(Head(children)) = color_name
         THEN <<[Head(children) EXCEPT
                    !.children = Append(@, NewSrgbClr(hex_value))]>>
              \o Tail(children)
         ELSE <<Head(children)>>
              \o update_role_appending(Tail(children), color_name, hex_value)

RECURSIVE update_role_every(_, _, _)
\* the update without its `break`: every child named color_name is rewritten
update_role_every(children, color_name, hex_value) ==
    IF children = <<>> THEN <<>>
    ELSE (IF TagLocal(Head(children)) = color_name
          THEN <<[Head(children) EXCEPT !.children = <<NewSrgbClr(hex_value)>>]>>
          ELSE <<Head(children)>>)
         \o update_role_every(Tail(children), color_name, hex_value)

RECURSIVE update_role_adding(_, _, _)
\* the update that adds the role element when the scheme has none of the name
update_role_adding(children, color_name, hex_value) ==
    IF children = <<>>
    THEN <<E(A_NS, color_name, NoAttrs, <<NewSrgbClr(hex_value)>>)>>
    ELSE IF TagLocal(Head(children)) = color_name
         THEN <<[Head(children) EXCEPT !.children = <<NewSrgbClr(hex_value)>>]>>
              \o Tail(children)
         ELSE <<Head(children)>>
              \o update_role_adding(Tail(children), color_name, hex_value)

RECURSIVE update_role(_, _, _)
\* the children of the colour scheme with the first child named color_name
\* given a single srgbClr child
update_role(children, color_name, hex_value) ==
    IF children = <<>> THEN <<>>
    ELSE IF TagLocal(Head(children)) = color_name
         THEN <<[Head(children) EXCEPT !.children = <<NewSrgbClr(hex_value)>>]>>
              \o Tail(children)
         ELSE <<Head(children)>> \o update_role(Tail(children), color_name, hex_value)

RECURSIVE update_color_scheme_all_keys(_, _)
\* the update without its `if not hex_value: continue`
update_color_scheme_all_keys(children, colors) ==
    IF colors = <<>> THEN children
    ELSE update_color_scheme_all_keys(
             update_role(children, Head(colors)[1], Head(colors)[2]), Tail(colors))

RECURSIVE update_color_scheme_from(_, _)
update_color_scheme_from(children, colors) ==
    IF colors = <<>> THEN children
    ELSE LET color_name == Head(colors)[1]
             hex_value == Head(colors)[2]
         IN  update_color_scheme_from(
                 IF Truthy(hex_value) THEN update_role(children, color_name, hex_value)
                 ELSE children,
                 Tail(colors))

update_color_scheme(clr_scheme, colors) ==
    [clr_scheme EXCEPT !.children = update_color_scheme_from(clr_scheme.children, colors)]

RECURSIVE update_first_scheme(_, _), update_first_scheme_in(_, _)
\* <<found, element>>: the element with the first clrScheme of root.iter() updated
update_first_scheme(elem, colors) ==
    IF TagLocal(elem) = "clrScheme" THEN <<TRUE, update_color_scheme(elem, colors)>>
    ELSE LET r == update_first_scheme_in(elem.children, colors)
         IN  <<r[1], [elem EXCEPT !.children = r[2]]>>
update_first_scheme_in(elems, colors) ==
    IF elems = <<>> THEN <<FALSE, <<>>>>
    ELSE LET h == update_first_scheme(Head(elems), colors)
         IN  IF h[1] THEN <<TRUE, <<h[2]>> \o Tail(elems)>>
             ELSE LET t == update_first_scheme_in(Tail(elems), colors)
                  IN  <<t[1], <<h[2]>> \o t[2]>>

\* ET.parse(theme_path); update; tree.write(theme_path, ...)
\* tree.write(theme_path, xml_declaration=True, encoding='UTF-8') writes the
\* document in ElementTree's serialisation, not in the one it was read in
update_theme_xml(data, colors) ==
    [kind |-> "xml",
     root |-> update_first_scheme(data.root, colors)[2],
     serial |-> "ElementTree"]

\* the extracted tree with ppt/theme/theme1.xml, when it is there, updated
patched_tree(extract_dir, colors) ==
    {IF e.name = THEME1_PATH
     THEN [e EXCEPT !.data = update_theme_xml(e.data, colors)]
     ELSE e : e \in extract_dir}

\* the outcomes of self.apply_colors_to_theme_xml(pptx_path, output_path)
apply_colors_to_theme_xml(fsys, colors, pptx_path, output_arg) ==
    with_temp_dir(
        LET output_path == OrPath(output_arg, pptx_path)
        IN  IF fsys[pptx_path] = NoFile
            THEN {[fs |-> fsys, ret |-> None, err |-> ERR_ENOENT, log |-> <<>>]}
            ELSE
            LET extract_dir == ExtractAll(fsys[pptx_path])
                log1 == <<Ev("open", pptx_path), Ev("extractall", pptx_path)>>
                themes == {e \in extract_dir : e.name = THEME1_PATH}
            IN  IF \E e \in themes : e.data.kind # "xml"
                THEN {[fs |-> fsys, ret |-> None, err |-> ERR_PARSE, log |-> log1]}
                ELSE
                LET patched == patched_tree(extract_dir, colors)
                IN  {[fs |-> [fsys EXCEPT ![output_path] = zip],
                      ret |-> output_path, err |-> NoErr,
                      log |-> log1 \o <<Ev("write", output_path)>>] :
                        zip \in Repackaged(patched)})

-----------------------------------------------------------------------------
(* Command line                                                            *)

\* int(value[0:2], 16), int(value[2:4], 16), int(value[4:6], 16) all return
PreviewParses(value) ==
    /\ IntParses(Slice(value, 0, 2))
    /\ IntParses(Slice(value, 2, 4))
    /\ IntParses(Slice(value, 4, 6))

\* main after generate_json_config: `if args.apply_to:` copy the theme
main_applied(js, log2, template, apply_to) ==
    IF js.err # NoErr
    THEN {[fs |-> js.fs, self |-> js.self, err |-> js.err, log |-> log2]}
    ELSE IF apply_to = NoPath \/ apply_to = ""
    THEN {[fs |-> js.fs, self |-> js.self, err |-> NoErr, log |-> log2]}
    ELSE {[fs |-> c.fs, self |-> js.self, err |-> c.err, log |-> log2 \o c.log] :
             c \in copy_theme_from_template(js.fs, template, apply_to, NoPath)}

\* main after generate_python_config: generate the JSON sidecar
main_generated(py, log1, template, json_out, apply_to, now) ==
    IF py.err # NoErr
    THEN {[fs |-> py.fs, self |-> py.self, err |-> py.err, log |-> log1]}
    ELSE UNION {main_applied(js, log1 \o js.log, template, apply_to) :
                   js \in {generate_json_config(py.fs, py.self, json_out, now)}}

\* main after extractor.extract(): the colour preview, then the Python module
main_extracted(fsys, ex, template, python_out, json_out, apply_to, now) ==
    IF ex.err # NoErr
    THEN {[fs |-> fsys, self |-> ex.self, err |-> ex.err, log |-> ex.log]}
    ELSE IF \E i \in 1..Len(ex.ret) : ~PreviewParses(ex.ret[i][2])
    THEN {[fs |-> fsys, self |-> ex.self, err |-> ERR_VALUE, log |-> ex.log]}
    ELSE UNION {main_generated(py, ex.log \o py.log, template, json_out, apply_to, now) :
                   py \in {generate_python_config(fsys, ex.self, python_out, now)}}

\* the outcomes of main() with args.template, args.python, args.json and
\* args.apply_to (NoPath: not given), the run taking place at time `now`
main(fsys, template, python_out, json_out, apply_to, now) ==
    UNION {IF built.err # NoErr
           THEN {[fs |-> fsys, self |-> built.self, err |-> built.err,
                  log |-> built.log]}
           ELSE UNION {main_extracted(fsys, ex, template, python_out, json_out,
                                      apply_to, now) :
                          ex \in {extract(fsys, built.self)}} :
              built \in {construct(fsys, template)}}

-----------------------------------------------------------------------------
(* Sampled inputs                                                          *)

SAMPLE_SHARED == <<"1", "A", "2", "B", "3", "C">>
SAMPLE_SHORT == <<"F", "F", "F">>
HexDigitOf == <<"0", "1", "2", "3", "4", "5", "6", "7", "8", "9", "A", "B", "C">>

Patterns == {"distinct", "shared", "short"}

\* the value role number i carries in a sampled raw colour set
SampleValue(i, pattern) ==
    IF pattern = "distinct" THEN <<"A", "0", "0", "0", "0", HexDigitOf[i]>>
    ELSE IF pattern = "shared" THEN SAMPLE_SHARED ELSE SAMPLE_SHORT

RECURSIVE RawSetFrom(_, _, _)
\* the raw colour set holding the roles of `present`, in COLOR_NAMES order
RawSetFrom(i, present, pattern) ==
    IF i > Len(COLOR_NAMES) THEN EmptyDict
    ELSE (IF COLOR_NAMES[i] \in present
          THEN <<<<COLOR_NAMES[i], SampleValue(i, pattern)>>>> ELSE <<>>)
         \o RawSetFrom(i + 1, present, pattern)

N_THEME2 == <<"p", "p", "t", "/", "t", "h", "e", "m", "e", "/", "t", "h", "e", "m", "e", "2", ".", "x", "m", "l">>
N_THEME3_CASE == <<"p", "p", "t", "/", "T", "h", "e", "m", "e", "/", "T", "H", "E", "M", "E", "3", ".", "x", "m", "l">>
N_THEME4_SUFFIX == <<"p", "p", "t", "/", "t", "h", "e", "m", "e", "/", "t", "h", "e", "m", "e", "4", ".", "X", "M", "L">>
N_SLIDE1 == <<"p", "p", "t", "/", "s", "l", "i", "d", "e", "s", "/", "s", "l", "i", "d", "e", "1", ".", "x", "m", "l">>
N_THUMB == <<"p", "p", "t", "/", "t", "h", "e", "m", "e", "/", "t", "h", "u", "m", "b", ".", "j", "p", "e", "g">>
N_PRESENTATION == <<"p", "p", "t", "/", "p", "r", "e", "s", "e", "n", "t", "a", "t", "i", "o", "n", ".", "x", "m", "l">>
N_MASTER1 == MASTERS_DIR \o <<"s", "l", "i", "d", "e", "M", "a", "s", "t", "e", "r", "1", ".", "x", "m", "l">>
N_LAYOUT1 == LAYOUTS_DIR \o <<"s", "l", "i", "d", "e", "L", "a", "y", "o", "u", "t", "1", ".", "x", "m", "l">>
V_000000 == <<"0", "0", "0", "0", "0", "0">>
V_1a2b3c == <<"1", "a", "2", "b", "3", "c">>
V_1A2B3C == <<"1", "A", "2", "B", "3", "C">>
V_ff0000 == <<"f", "f", "0", "0", "0", "0">>
V_FF0000 == <<"F", "F", "0", "0", "0", "0">>
V_00f == <<"0", "0", "f">>
V_123456 == <<"1", "2", "3", "4", "5", "6">>
V_112233 == <<"1", "1", "2", "2", "3", "3">>
V_a1b2c3 == <<"a", "1", "b", "2", "c", "3">>
V_AAAAAA == <<"A", "A", "A", "A", "A", "A">>
V_BBBBBB == <<"B", "B", "B", "B", "B", "B">>
V_C0FFEE == <<"C", "0", "F", "F", "E", "E">>
V_windowText == <<"w", "i", "n", "d", "o", "w", "T", "e", "x", "t">>
V_window == <<"w", "i", "n", "d", "o", "w">>
V_tx1 == <<"t", "x", "1">>
V_OfficeTheme == <<"O", "f", "f", "i", "c", "e", " ", "T", "h", "e", "m", "e">>
V_Other == <<"O", "t", "h", "e", "r">>
V_Calibri == <<"C", "a", "l", "i", "b", "r", "i">>
V_Arial == <<"A", "r", "i", "a", "l">>

Attr(key, value) == <<<<key, value>>>>

Srgb(val) == E(A_NS, "srgbClr", Attr("val", val), <<>>)
SysClr(val, lastClr) == E(A_NS, "sysClr", <<<<"val", val>>, <<"lastClr", lastClr>>>>, <<>>)
SysClrNoLast(val) == E(A_NS, "sysClr", Attr("val", val), <<>>)
SchemeClr(val) == E(A_NS, "schemeClr", Attr("val", val), <<>>)

\* the role elements a sampled colour scheme is made of: both recognised
\* forms, an unrecognised form, a missing attribute, a second child, a
\* malformed value, a tag that is no role, a tag without namespace
RoleElemPool == {
    E(A_NS, "dk1", NoAttrs, <<Srgb(V_000000)>>),
    E(A_NS, "dk1", NoAttrs, <<SysClr(V_windowText, V_1a2b3c)>>),
    E("", "accent1", NoAttrs, <<Srgb(V_ff0000)>>),
    E(A_NS, "accent1", NoAttrs, <<SchemeClr(V_tx1)>>),
    E(A_NS, "lt1", NoAttrs, <<SysClrNoLast(V_window)>>),
    E(A_NS, "hlink", NoAttrs, <<SchemeClr(V_tx1), Srgb(V_00f)>>),
    E(A_NS, "custClr", NoAttrs, <<Srgb(V_123456)>>) }

SeqsUpTo(S, n) == UNION {[1..k -> S] : k \in 0..n}

LatinFont(role, typeface) ==
    E(A_NS, role, NoAttrs, <<E(A_NS, "latin", Attr("typeface", typeface), <<>>)>>)

FontsFull ==
    E(A_NS, "fontScheme", Attr("name", V_OfficeTheme),
      <<LatinFont("majorFont", V_Calibri), LatinFont("minorFont", V_Arial)>>)

FontsPartial ==
    E(A_NS, "fontScheme", NoAttrs,
      <<LatinFont("majorFont", <<>>),
        E(A_NS, "minorFont", NoAttrs,
          <<E(A_NS, "ea", Attr("typeface", V_Arial), <<>>)>>)>>)

ExtraSchemes ==
    E(A_NS, "extraClrSchemeLst", NoAttrs,
      <<E(A_NS, "extraClrScheme", NoAttrs,
          <<E(A_NS, "clrScheme", Attr("name", V_Other),
              <<E(A_NS, "dk1", NoAttrs, <<Srgb(V_AAAAAA)>>),
                E(A_NS, "lt1", NoAttrs, <<Srgb(V_BBBBBB)>>)>>)>>)>>)

Variants == {"plain", "odd"}

\* a theme document: <a:theme name=..> <a:themeElements> <a:clrScheme> the role
\* elements </a:clrScheme> <a:fontScheme/> </a:themeElements> ... </a:theme>;
\* the odd variant has no name, partial fonts and a list of extra schemes
ThemeDoc(elems, variant) ==
    [kind |-> "xml",
     root |-> E(A_NS, "theme",
                IF variant = "odd" THEN NoAttrs ELSE Attr("name", V_OfficeTheme),
                <<E(A_NS, "themeElements", NoAttrs,
                    <<E(A_NS, "clrScheme", Attr("name", V_OfficeTheme), elems),
                      IF variant = "odd" THEN FontsPartial ELSE FontsFull>>)>>
                \o (IF variant = "odd" THEN <<ExtraSchemes>> ELSE <<>>))]

\* a theme holding only accent1=FF0000 and dk1=000000
TWO_ROLE_DOC ==
    ThemeDoc(<<E(A_NS, "accent1", NoAttrs, <<Srgb(V_FF0000)>>),
               E(A_NS, "dk1", NoAttrs, <<Srgb(V_000000)>>)>>, "plain")

Docs == {ThemeDoc(elems, variant) :
            elems \in SeqsUpTo(RoleElemPool, MaxElems), variant \in Variants}
        \cup {TWO_ROLE_DOC}

OTHER_DOC ==
    [kind |-> "xml",
     root |-> E(A_NS, "theme", Attr("name", V_Other),
                <<E(A_NS, "themeElements", NoAttrs,
                    <<E(A_NS, "clrScheme", NoAttrs,
                        <<E(A_NS, "accent2", NoAttrs, <<Srgb(V_C0FFEE)>>)>>)>>)>>)]

SYS_DOC ==
    ThemeDoc(<<E(A_NS, "dk1", NoAttrs, <<SysClr(V_windowText, V_1a2b3c)>>),
               E(A_NS, "accent1", NoAttrs, <<Srgb(V_ff0000)>>)>>, "odd")

Bin(id) == [kind |-> "bin", id |-> id]

Zip(members) == [kind |-> "zip", members |-> members]

Member(name, data) == [name |-> name, data |-> data]

NamePool == <<THEME1_PATH, N_THEME2, N_THEME3_CASE, N_THEME4_SUFFIX, N_SLIDE1, N_THUMB>>

\* archive listings: up to MaxMembers distinct names, in every order
Listings ==
    {l \in SeqsUpTo(1..Len(NamePool), MaxMembers) :
        \A i \in 1..Len(l) : \A j \in 1..Len(l) : i # j => l[i] # l[j]}

\* a theme document that carries the name of the member holding it
NamedDoc(name) ==
    [kind |-> "xml",
     root |-> E(A_NS, "theme", Attr("name", name),
                <<E(A_NS, "themeElements", NoAttrs,
                    <<E(A_NS, "clrScheme", NoAttrs,
                        <<E(A_NS, "accent2", NoAttrs, <<Srgb(V_C0FFEE)>>)>>)>>)>>)]

\* the archive of a listing: every XML member holds the document named after it
ListedZip(l) ==
    Zip([i \in 1..Len(l) |->
            Member(NamePool[l[i]],
                   IF NamePool[l[i]] = N_THUMB THEN Bin(1)
                   ELSE NamedDoc(NamePool[l[i]]))])

TemplatePool == <<Member(THEME1_PATH, TWO_ROLE_DOC),
                  Member(THEME_DIR, [kind |-> "dir"]),
                  Member(N_MASTER1, Bin(11)),
                  Member(N_LAYOUT1, Bin(12))>>

TargetPool == <<Member(THEME1_PATH, SYS_DOC),
                Member(N_THEME2, OTHER_DOC),
                Member(N_LAYOUT1, Bin(22)),
                Member(N_PRESENTATION, Bin(23))>>

SMALL_TARGET == Zip(<<Member(THEME1_PATH, SYS_DOC), Member(N_PRESENTATION, Bin(23))>>)

RECURSIVE PickFrom(_, _, _)
PickFrom(pool, picked, i) ==
    IF i > Len(pool) THEN <<>>
    ELSE (IF i \in picked THEN <<pool[i]>> ELSE <<>>) \o PickFrom(pool, picked, i + 1)

\* archives of up to MaxMembers members of the pool
PoolZips(pool) ==
    {Zip(PickFrom(pool, picked, 1)) :
        picked \in {S \in SUBSET (1..Len(pool)) : Cardinality(S) <= MaxMembers}}

\* raw-colour maps handed to the applier
ColorMaps == {
    <<<<"accent1", V_112233>>>>,
    <<<<"dk1", <<>>>>, <<"accent1", V_a1b2c3>>, <<"lt1", V_BBBBBB>>>>,
    <<<<"custClr", V_AAAAAA>>, <<"hlink", V_ff0000>>>> }

Clock == {1, 2}

Paths == {"template.pptx", "missing.pptx", "target.pptx", "out.pptx",
          "theme_config.py", "theme_colors.json"}

\* the files of a run: the template, the target, and nothing else yet
FileSystem(template, target) ==
    [p \in Paths |-> IF p = "template.pptx" THEN template
                     ELSE IF p = "target.pptx" THEN target ELSE NoFile]

-----------------------------------------------------------------------------
(* Operations                                                              *)

Quiet ==
    /\ calls = 0
    /\ op = NoOp
    /\ ret = None
    /\ err = NoErr
    /\ log = <<>>

NoExtractor ==
    /\ template_path = NoPath
    /\ theme_colors = EmptyDict
    /\ theme_name = <<>>
    /\ font_scheme = EmptyDict
    /\ raw_theme_xml = NoXml

\* the extractor's fields are those of the object
SetExtractorTo(self) ==
    /\ template_path = self.template_path
    /\ theme_colors = self.theme_colors
    /\ theme_name = self.theme_name
    /\ font_scheme = self.font_scheme
    /\ raw_theme_xml = self.raw_theme_xml

SetExtractor(self) ==
    /\ template_path' = self.template_path
    /\ theme_colors' = self.theme_colors
    /\ theme_name' = self.theme_name
    /\ font_scheme' = self.font_scheme
    /\ raw_theme_xml' = self.raw_theme_xml

\* a command-line run is a process of its own, from its start to its exit:
\* library calls are made on an extractor built through the library
InLibrary == template_path # NoPath /\ op.name # "main"

Called(name) == [name |-> name, pre |-> fs, pre_self |-> Extractor]

Construct(path) ==
    /\ op.name # "main"
    /\ calls < MaxCalls
    /\ \E o \in {construct(fs, path)} :
           /\ IF o.err = NoErr THEN SetExtractor(o.self)
              ELSE UNCHANGED <<template_path, theme_colors, theme_name, font_scheme,
                               raw_theme_xml>>
           /\ op' = [name |-> "construct", path |-> path, pre |-> fs,
                     pre_self |-> Extractor]
           /\ ret' = None
           /\ err' = o.err
           /\ log' = o.log
    /\ calls' = calls + 1
    /\ UNCHANGED <<fs, applier_colors>>

Extract ==
    /\ InLibrary
    /\ calls < MaxCalls
    /\ \E o \in {extract(fs, Extractor)} :
           /\ SetExtractor(o.self)
           /\ op' = Called("extract")
           /\ ret' = o.ret
           /\ err' = o.err
           /\ log' = o.log
    /\ calls' = calls + 1
    /\ UNCHANGED <<fs, applier_colors>>

GetColorMapping ==
    /\ InLibrary
    /\ calls < MaxCalls
    /\ op' = Called("get_color_mapping")
    /\ ret' = get_color_mapping(theme_colors)
    /\ err' = NoErr
    /\ log' = <<>>
    /\ calls' = calls + 1
    /\ UNCHANGED <<fs, template_path, theme_colors, theme_name, font_scheme,
                   raw_theme_xml, applier_colors>>

GeneratePythonConfig(output_path, now) ==
    /\ InLibrary
    /\ calls < MaxCalls
    /\ \E o \in {generate_python_config(fs, Extractor, output_path, now)} :
           /\ fs' = o.fs
           /\ SetExtractor(o.self)
           /\ op' = Called("generate_python_config")
           /\ ret' = o.ret
           /\ err' = o.err
           /\ log' = o.log
    /\ calls' = calls + 1
    /\ UNCHANGED applier_colors

GenerateJsonConfig(output_path, now) ==
    /\ InLibrary
    /\ calls < MaxCalls
    /\ \E o \in {generate_json_config(fs, Extractor, output_path, now)} :
           /\ fs' = o.fs
           /\ SetExtractor(o.self)
           /\ op' = Called("generate_json_config")
           /\ ret' = o.ret
           /\ err' = o.err
           /\ log' = o.log
    /\ calls' = calls + 1
    /\ UNCHANGED applier_colors

Main(template, apply_to, now) ==
    /\ calls = 0
    /\ \E o \in main(fs, template, "theme_config.py", "theme_colors.json",
                     apply_to, now) :
           /\ fs' = o.fs
           /\ SetExtractor(o.self)
           /\ op' = [name |-> "main", template |-> template, apply_to |-> apply_to,
                     pre |-> fs, pre_self |-> Extractor]
           /\ ret' = None
           /\ err' = o.err
           /\ log' = o.log
    /\ calls' = calls + 1
    /\ UNCHANGED applier_colors

CopyTheme(template, target, output_arg) ==
    /\ calls < MaxApplierCalls
    /\ \E o \in copy_theme_from_template(fs, template, target, output_arg) :
           /\ fs' = o.fs
           /\ op' = [name |-> "copy_theme_from_template", template |-> template,
                     target |-> target, output |-> OrPath(output_arg, target),
                     output_arg |-> output_arg,
                     pre |-> fs, pre_self |-> Extractor]
           /\ ret' = o.ret
           /\ err' = o.err
           /\ log' = o.log
    /\ calls' = calls + 1
    /\ UNCHANGED <<template_path, theme_colors, theme_name, font_scheme,
                   raw_theme_xml, applier_colors>>

ApplyColors(pptx_path, output_arg) ==
    /\ calls < MaxApplierCalls
    /\ \E o \in apply_colors_to_theme_xml(fs, applier_colors, pptx_path, output_arg) :
           /\ fs' = o.fs
           /\ op' = [name |-> "apply_colors_to_theme_xml", target |-> pptx_path,
                     output |-> OrPath(output_arg, pptx_path),
                     output_arg |-> output_arg,
                     pre |-> fs, pre_self |-> Extractor]
           /\ ret' = o.ret
           /\ err' = o.err
           /\ log' = o.log
    /\ calls' = calls + 1
    /\ UNCHANGED <<template_path, theme_colors, theme_name, font_scheme,
                   raw_theme_xml, applier_colors>>

-----------------------------------------------------------------------------
(* The extractor and the command line                                      *)

Init ==
    /\ \/ \E l \in Listings : fs = FileSystem(ListedZip(l), SMALL_TARGET)
       \/ \E doc \in Docs :
              fs = FileSystem(Zip(<<Member(THEME1_PATH, doc)>>), SMALL_TARGET)
    /\ NoExtractor
    /\ applier_colors = None
    /\ Quiet

Next ==
    \/ \E path \in {"template.pptx", "missing.pptx"} : Construct(path)
    \/ Extract
    \/ \E now \in Clock : GeneratePythonConfig("theme_config.py", now)
    \/ \E now \in Clock : GenerateJsonConfig("theme_colors.json", now)
    \/ \E template \in {"template.pptx", "missing.pptx"} :
       \E apply_to \in {NoPath, "target.pptx"} :
       \E now \in Clock : Main(template, apply_to, now)

Spec == Init /\ [][Next]_vars

-----------------------------------------------------------------------------
(* The semantic mapper on its own: every raw colour set, then the mapping  *)

InitMapper ==
    /\ fs = FileSystem(Zip(<<Member(THEME1_PATH, TWO_ROLE_DOC)>>), NoFile)
    /\ template_path = "template.pptx"
    /\ \E present \in SUBSET Roles : \E pattern \in Patterns :
           theme_colors = RawSetFrom(1, present, pattern)
    /\ theme_name = <<>>
    /\ font_scheme = EmptyDict
    /\ raw_theme_xml = NoXml
    /\ applier_colors = None
    /\ calls = MaxCalls - 1
    /\ op = [name |-> "extract"]
    /\ ret = theme_colors
    /\ err = NoErr
    /\ log = <<>>

NextMapper == GetColorMapping

SpecMapper == InitMapper /\ [][NextMapper]_vars

-----------------------------------------------------------------------------
(* The applier: copy mode and patch mode, one package pair per run         *)

InitApplier ==
    /\ \/ /\ \E template \in PoolZips(TemplatePool) \cup {NoFile} :
             \E target \in PoolZips(TargetPool) \cup {NoFile} :
                 fs = FileSystem(template, target)
          /\ applier_colors = <<<<"accent1", V_112233>>>>
       \/ /\ \E doc \in Docs :
                 fs = FileSystem(Zip(<<Member(THEME1_PATH, TWO_ROLE_DOC)>>),
                                 Zip(<<Member(THEME1_PATH, doc),
                                       Member(N_PRESENTATION, Bin(23))>>))
          /\ applier_colors \in ColorMaps
    /\ NoExtractor
    /\ Quiet

NextApplier ==
    \/ \E path \in {"template.pptx", "target.pptx"} :
           calls < MaxApplierCalls /\ Construct(path)
    \/ \E output_arg \in {NoPath, "out.pptx"} :
           CopyTheme("template.pptx", "target.pptx", output_arg)
    \/ \E output_arg \in {NoPath, "out.pptx"} : ApplyColors("target.pptx", output_arg)

SpecApplier == InitApplier /\ [][NextApplier]_vars

-----------------------------------------------------------------------------
(* The generated configuration module (theme_config.py) and its helpers    *)

ACCENT_COLORS == <<"#00325C", "#1B9CD0", "#8637BA", "#179963", "#FED141", "#C81A28">>

INDEX_ERROR == "IndexError"
VALUE_ERROR == "ValueError"

\* t[i] on a tuple: from the end when i is negative, IndexError outside
TupleIndex(t, i) ==
    IF 0 <= i /\ i < Len(t) THEN t[i + 1]
    ELSE IF 0 - Len(t) <= i /\ i < 0 THEN t[Len(t) + i + 1]
    ELSE INDEX_ERROR

\* a % b on Python ints with b > 0: the remainder of the floor division
PyMod(a, b) == a - b * (a \div b)

\* get_accent_color without the wraparound
get_accent_color_no_wrap(index) == TupleIndex(ACCENT_COLORS, index)

\* ACCENT_COLORS[index % len(ACCENT_COLORS)]
get_accent_color(index) ==
    TupleIndex(ACCENT_COLORS, PyMod(index, Len(ACCENT_COLORS)))

HEX_UPPER == <<"0", "1", "2", "3", "4", "5", "6", "7", "8", "9",
               "A", "B", "C", "D", "E", "F">>

\* the value of a hexadecimal digit, in either case
HexValue(c) == CHOOSE v \in 0..15 : HEX_UPPER[v + 1] = UpperChar(c)

RECURSIVE int16(_)
\* int(s, 16) for a text of hexadecimal digits
int16(s) ==
    IF s = <<>> THEN 0
    ELSE int16(SubSeq(s, 1, Len(s) - 1)) * 16 + HexValue(s[Len(s)])

RECURSIVE LStripSharp(_)
\* hex_color.lstrip('#')
LStripSharp(s) ==
    IF s # <<>> /\ Head(s) = "#" THEN LStripSharp(Tail(s)) ELSE s

\* tuple(int(h[i:i+2], 16) for i in (0, 2, 4))
hex_to_rgb(hex_color) ==
    LET h == LStripSharp(hex_color)
    IN  IF PreviewParses(h)
        THEN <<int16(Slice(h, 0, 2)), int16(Slice(h, 2, 4)), int16(Slice(h, 4, 6))>>
        ELSE VALUE_ERROR

RECURSIVE HexDigitsOf(_)
\* the hexadecimal digits of n >= 0, upper case
HexDigitsOf(n) ==
    IF n < 16 THEN <<HEX_UPPER[n + 1]>>
    ELSE HexDigitsOf(n \div 16) \o <<HEX_UPPER[(n % 16) + 1]>>

\* the format with lower-case digits
Format02x(n) == Lower(IF n < 16 THEN <<"0">> \o HexDigitsOf(n) ELSE HexDigitsOf(n))

\* f"{n:02X}": upper-case digits, padded with a zero to two places
Format02X(n) == IF n < 16 THEN <<"0">> \o HexDigitsOf(n) ELSE HexDigitsOf(n)

\* f"{r:02X}{g:02X}{b:02X}"
rgb_to_hex(r, g, b) == Format02X(r) \o Format02X(g) \o Format02X(b)

\* indexes handed to get_accent_color
Indexes == (0 - MaxIndex)..MaxIndex

BytePairs == {<<x, y>> : x \in HexDigits, y \in HexDigits}

\* 6-digit colours: every pair of digits in the first place, and every
\* combination of a few pairs in all three places
HexColors ==
    {p \o <<"1", "a">> \o <<"F", "0">> : p \in BytePairs}
    \cup {p \o q \o r : p \in {<<"0", "0">>, <<"f", "f">>, <<"A", "b">>, <<"9", "C">>},
                        q \in {<<"0", "0">>, <<"F", "F">>, <<"c", "D">>, <<"0", "a">>},
                        r \in {<<"0", "0">>, <<"f", "F">>, <<"E", "e">>, <<"7", "f">>}}

InitConfig ==
    /\ fs = FileSystem(NoFile, NoFile)
    /\ NoExtractor
    /\ applier_colors = None
    /\ calls = 0
    /\ ret = None
    /\ err = NoErr
    /\ log = <<>>
    /\ \/ \E index \in Indexes :
              op = [name |-> "pending", fn |-> "get_accent_color", index |-> index]
       \/ \E h \in HexColors :
              op = [name |-> "pending", fn |-> "hex_to_rgb", h |-> h]

GetAccentColor ==
    /\ op.name = "pending" /\ op.fn = "get_accent_color"
    /\ ret' = get_accent_color(op.index)
    /\ op' = [op EXCEPT !.name = "get_accent_color"]
    /\ calls' = calls + 1
    /\ UNCHANGED <<fs, template_path, theme_colors, theme_name, font_scheme,
                   raw_theme_xml, applier_colors, err, log>>

HexToRgb ==
    /\ op.name = "pending" /\ op.fn = "hex_to_rgb"
    /\ ret' = hex_to_rgb(op.h)
    /\ op' = [op EXCEPT !.name = "hex_to_rgb"]
    /\ calls' = calls + 1
    /\ UNCHANGED <<fs, template_path, theme_colors, theme_name, font_scheme,
                   raw_theme_xml, applier_colors, err, log>>

\* rgb_to_hex(*hex_to_rgb(h))
RgbToHex ==
    /\ op.name = "hex_to_rgb"
    /\ ret' = rgb_to_hex(ret[1], ret[2], ret[3])
    /\ op' = [name |-> "rgb_to_hex", fn |-> op.fn, h |-> op.h, rgb |-> ret]
    /\ calls' = calls + 1
    /\ UNCHANGED <<fs, template_path, theme_colors, theme_name, font_scheme,
                   raw_theme_xml, applier_colors, err, log>>

NextConfig == GetAccentColor \/ HexToRgb \/ RgbToHex

SpecConfig == InitConfig /\ [][NextConfig]_vars

-----------------------------------------------------------------------------
(* ThemeApplier(config_path): loading the raw colours back from an emitted *)
(* artifact. The JSON text and the Python source are computed character by *)
(* character for texts over hexadecimal digits, the double quote and the   *)
(* backslash.                                                              *)

QUOTE == "\""
BACKSLASH == "\\"

SYNTAX_ERROR == "SyntaxError"

OctalDigits == {"0", "1", "2", "3", "4", "5", "6", "7"}

\* chr(n) for the code of an octal escape
Chr(n) ==
    IF n >= 48 /\ n <= 57 THEN HEX_UPPER[n - 47]
    ELSE IF n >= 65 /\ n <= 70 THEN HEX_UPPER[n - 54]
    ELSE IF n = 34 THEN QUOTE
    ELSE IF n = 92 THEN BACKSLASH
    ELSE "chr" \o ToString(n)

\* json.dump of a str: the text between quotes, quote and backslash escaped
RECURSIVE JsonEscape(_)
JsonEscape(value) ==
    IF value = <<>> THEN <<>>
    ELSE (IF Head(value) \in {QUOTE, BACKSLASH} THEN <<BACKSLASH, Head(value)>>
          ELSE <<Head(value)>>) \o JsonEscape(Tail(value))

JsonEncode(value) == <<QUOTE>> \o JsonEscape(value) \o <<QUOTE>>

\* json.load of a string body, the text after the opening quote
RECURSIVE JsonScan(_)
JsonScan(s) ==
    IF s = <<>> THEN [ok |-> FALSE, value |-> <<>>]
    ELSE IF Head(s) = QUOTE THEN [ok |-> Tail(s) = <<>>, value |-> <<>>]
    ELSE IF Head(s) = BACKSLASH
    THEN IF Len(s) >= 2 /\ s[2] \in {QUOTE, BACKSLASH, "/"}
         THEN LET r == JsonScan(SubSeq(s, 3, Len(s)))
              IN  [ok |-> r.ok, value |-> <<s[2]>> \o r.value]
         ELSE [ok |-> FALSE, value |-> <<>>]
    ELSE LET r == JsonScan(Tail(s))
         IN  [ok |-> r.ok, value |-> <<Head(s)>> \o r.value]

JsonDecode(text) ==
    IF text # <<>> /\ Head(text) = QUOTE THEN JsonScan(Tail(text))
    ELSE [ok |-> FALSE, value |-> <<>>]

\* f'"{key}": "{value}",' : the value between quotes, nothing escaped
PyLiteral(value) == <<QUOTE>> \o value \o <<QUOTE>>

\* the octal digits, at most three, that follow a backslash
OctalRun(s) ==
    IF Len(s) >= 3 /\ s[2] \in OctalDigits /\ s[3] \in OctalDigits THEN 3
    ELSE IF Len(s) >= 2 /\ s[2] \in OctalDigits THEN 2
    ELSE 1

RECURSIVE OctalValue(_)
OctalValue(s) ==
    IF s = <<>> THEN 0
    ELSE OctalValue(SubSeq(s, 1, Len(s) - 1)) * 8 + HexValue(s[Len(s)])

\* Python's reading of a string body, the text after the opening quote: the
\* value, and the source text left after the closing quote
RECURSIVE PyScan(_)
PyScan(s) ==
    IF s = <<>> THEN [ok |-> FALSE, value |-> <<>>, rest |-> <<>>]
    ELSE IF Head(s) = QUOTE THEN [ok |-> TRUE, value |-> <<>>, rest |-> Tail(s)]
    ELSE IF Head(s) = BACKSLASH
    THEN IF Len(s) = 1 THEN [ok |-> FALSE, value |-> <<>>, rest |-> <<>>]
         ELSE IF s[2] \in {QUOTE, BACKSLASH}
         THEN LET r == PyScan(SubSeq(s, 3, Len(s)))
              IN  [r EXCEPT !.value = <<s[2]>> \o @]
         ELSE IF s[2] \in OctalDigits
         THEN LET n == OctalRun(Tail(s))
                  r == PyScan(SubSeq(s, 2 + n, Len(s)))
              IN  [r EXCEPT !.value = <<Chr(OctalValue(SubSeq(s, 2, 1 + n)))>> \o @]
         ELSE LET r == PyScan(SubSeq(s, 3, Len(s)))
              IN  [r EXCEPT !.value = <<BACKSLASH, s[2]>> \o @]
    ELSE LET r == PyScan(Tail(s))
         IN  [r EXCEPT !.value = <<Head(s)>> \o @]

\* the string literals of an expression, adjacent ones concatenated; an F
\* before the quote makes a formatted literal, anything else is no expression
RECURSIVE PyLiterals(_, _)
PyLiterals(s, first) ==
    IF s = <<>> THEN [ok |-> ~first, value |-> <<>>]
    ELSE LET body == IF Head(s) = QUOTE THEN Tail(s)
                     ELSE IF Head(s) = "F" /\ Len(s) >= 2 /\ s[2] = QUOTE
                     THEN SubSeq(s, 3, Len(s))
                     ELSE <<>>
             opens == Head(s) = QUOTE \/ (Head(s) = "F" /\ Len(s) >= 2 /\ s[2] = QUOTE)
         IN  IF ~opens THEN [ok |-> FALSE, value |-> <<>>]
             ELSE IF ~PyScan(body).ok THEN [ok |-> FALSE, value |-> <<>>]
             ELSE [ok |-> PyLiterals(PyScan(body).rest, FALSE).ok,
                   value |-> PyScan(body).value
                             \o PyLiterals(PyScan(body).rest, FALSE).value]

PyEval(text) == PyLiterals(text, TRUE)

TRIPLE_QUOTE == <<QUOTE, QUOTE, QUOTE>>

\* the module's docstring holds the theme name: it is read back when the
\* name neither closes the docstring nor holds a backslash escape
DocstringReads(module) ==
    /\ ~Contains(module.theme_name, TRIPLE_QUOTE)
    /\ ~Contains(module.theme_name, <<BACKSLASH>>)

\* the text of a path, for config_path.endswith('.json')
PathText(path) ==
    IF path = "theme_colors.json"
    THEN <<"t", "h", "e", "m", "e", "_", "c", "o", "l", "o", "r", "s",
           ".", "j", "s", "o", "n">>
    ELSE IF path = "theme_config.py"
    THEN <<"t", "h", "e", "m", "e", "_", "c", "o", "n", "f", "i", "g", ".", "p", "y">>
    ELSE <<>>

EXT_JSON == <<".", "j", "s", "o", "n">>

\* json.load(json.dump(d)): every value through its JSON text
JsonReadBack(d) ==
    [ok |-> \A i \in 1..Len(d) : JsonDecode(JsonEncode(d[i][2])).ok,
     value |-> [i \in 1..Len(d) |-> <<d[i][1], JsonDecode(JsonEncode(d[i][2])).value>>]]

\* the dict of a module's declaration: every value through its source text
PyReadBack(d) ==
    [ok |-> \A i \in 1..Len(d) : PyEval(PyLiteral(d[i][2])).ok,
     value |-> [i \in 1..Len(d) |-> <<d[i][1], PyEval(PyLiteral(d[i][2])).value>>]]

\* ThemeApplier(config_path) on a path the generators write to: the raw
\* colours the object holds, or the exception
applier_init(fsys, config_path) ==
    IF fsys[config_path] = NoFile
    THEN [colors |-> None, err |-> ERR_ENOENT]
    ELSE IF EndsWith(PathText(config_path), EXT_JSON)
    THEN [colors |-> JsonReadBack(fsys[config_path].raw_colors).value,
          err |-> NoErr]
    ELSE IF /\ DocstringReads(fsys[config_path])
            /\ PyReadBack(fsys[config_path].THEME_COLORS_RAW).ok
            /\ PyReadBack(fsys[config_path].THEME_COLORS).ok
            /\ PyReadBack(fsys[config_path].THEME_FONTS).ok
    THEN [colors |-> PyReadBack(fsys[config_path].THEME_COLORS_RAW).value,
          err |-> NoErr]
    ELSE [colors |-> None, err |-> SYNTAX_ERROR]

\* applier = ThemeApplier(config_path)
ConstructApplier(config_path) ==
    /\ calls < MaxCalls
    /\ \E o \in {applier_init(fs, config_path)} :
           /\ applier_colors' = IF o.err = NoErr THEN o.colors ELSE applier_colors
           /\ err' = o.err
    /\ op' = [name |-> "applier_init", path |-> config_path, pre |-> fs,
              pre_self |-> Extractor]
    /\ ret' = None
    /\ log' = <<>>
    /\ calls' = calls + 1
    /\ UNCHANGED <<fs, template_path, theme_colors, theme_name, font_scheme,
                   raw_theme_xml>>

-----------------------------------------------------------------------------
(* Emission: one extractor on an unmodified template, extracting and       *)
(* generating again and again                                              *)

\* an archive without any theme member
THEMELESS == Zip(<<Member(N_SLIDE1, Bin(1)), Member(N_THUMB, Bin(2))>>)

\* values that are no colours: a quote, an escaped backslash, a quoted F
V_QUOTED == <<"1", "2", QUOTE, "3", "4">>
V_BACKSLASHES == <<"a", "b", BACKSLASH, BACKSLASH, "c", "d">>
V_OCTAL == <<"a", BACKSLASH, "1", "0", "1">>
V_FQUOTED == <<"1", "2", QUOTE, "f", QUOTE, "3", "4">>

\* a theme whose dk1 carries the value, next to accent1=FF0000
OddValueDoc(value) ==
    ThemeDoc(<<E(A_NS, "dk1", NoAttrs, <<Srgb(value)>>),
               E(A_NS, "accent1", NoAttrs, <<Srgb(V_FF0000)>>)>>, "plain")

EmitDocs ==
    {TWO_ROLE_DOC, SYS_DOC, OTHER_DOC}
    \cup {OddValueDoc(v) : v \in {V_QUOTED, V_BACKSLASHES, V_OCTAL, V_FQUOTED}}

EmitTemplates ==
    {Zip(<<Member(THEME1_PATH, doc)>>) : doc \in EmitDocs} \cup {THEMELESS}

InitEmit ==
    /\ \E template \in EmitTemplates : fs = FileSystem(template, NoFile)
    /\ SetExtractorTo(construct(fs, "template.pptx").self)
    /\ applier_colors = None
    /\ calls = 0
    /\ op = [name |-> "construct", path |-> "template.pptx", pre |-> fs,
             pre_self |-> Extractor]
    /\ ret = None
    /\ err = NoErr
    /\ log = <<>>

NextEmit ==
    \/ Extract
    \/ \E now \in Clock : GeneratePythonConfig("theme_config.py", now)
    \/ \E now \in Clock : GenerateJsonConfig("theme_colors.json", now)
    \/ \E config_path \in {"theme_colors.json", "theme_config.py"} :
           ConstructApplier(config_path)

SpecEmit == InitEmit /\ [][NextEmit]_vars


-----------------------------------------------------------------------------
(* Re-extraction: one extractor, the template file rewritten by its owner   *)
(* between calls of extract()                                               *)

\* the template file is replaced on disk; extract() opens self.template_path
\* anew at every call, so the next call reads the new archive
RewriteTemplate(zip) ==
    /\ calls < MaxCalls
    /\ fs["template.pptx"] # zip
    /\ fs' = [fs EXCEPT !["template.pptx"] = zip]
    /\ op' = [name |-> "rewrite_template", pre |-> fs, pre_self |-> Extractor]
    /\ ret' = None
    /\ err' = NoErr
    /\ log' = <<Ev("write", "template.pptx")>>
    /\ calls' = calls + 1
    /\ UNCHANGED <<template_path, theme_colors, theme_name, font_scheme,
                   raw_theme_xml, applier_colors>>

NextRerun ==
    \/ Extract
    \/ \E zip \in EmitTemplates : RewriteTemplate(zip)

SpecRerun == InitEmit /\ [][NextRerun]_vars

-----------------------------------------------------------------------------
(* Script executors: pptx_executor.py, powerpoint_processor.py and          *)
(* excel_processor.py. A script is its text; what the native exec() of a    *)
(* script does is any of the outcomes the executor distinguishes.           *)

P_IMPORT_OS == <<"i", "m", "p", "o", "r", "t", " ", "o", "s">>
P_IMPORT_SYS == <<"i", "m", "p", "o", "r", "t", " ", "s", "y", "s">>
P_IMPORT_SUBPROCESS == <<"i", "m", "p", "o", "r", "t", " ", "s", "u", "b", "p", "r", "o", "c", "e", "s", "s">>
P_DUNDER_IMPORT == <<"_", "_", "i", "m", "p", "o", "r", "t", "_", "_">>
P_EVAL == <<"e", "v", "a", "l", "(">>
P_EXEC == <<"e", "x", "e", "c", "(">>
P_OPEN == <<"o", "p", "e", "n", "(">>
P_SAVE == <<".", "s", "a", "v", "e", "(">>
P_WB_SAVE == <<"w", "b", ".", "s", "a", "v", "e", "(">>
P_WB_CLOSE == <<"w", "b", ".", "c", "l", "o", "s", "e", "(">>
W_DECK == <<"d", "e", "c", "k">>
W_ADIPRESENTATION == <<"A", "D", "I", "P", "r", "e", "s", "e", "n", "t", "a", "t", "i", "o", "n">>
W_WB == <<"w", "b">>
W_WORKBOOK == <<"W", "o", "r", "k", "b", "o", "o", "k">>

\* the (pattern, message) lists of the three validators, in their order
PPTX_DANGEROUS == <<
    <<P_IMPORT_OS, "Direct os import not allowed">>,
    <<P_IMPORT_SYS, "Direct sys import not allowed">>,
    <<P_IMPORT_SUBPROCESS, "subprocess not allowed">>,
    <<P_DUNDER_IMPORT, "Dynamic imports not allowed">>,
    <<P_EVAL, "eval() not allowed">>,
    <<P_EXEC, "Nested exec() not allowed">>,
    <<P_OPEN, "File operations not allowed">>,
    <<P_SAVE, "save() should not be included - app handles saving">> >>

POWERPOINT_DANGEROUS == <<
    <<P_IMPORT_OS, "Direct os import not allowed">>,
    <<P_IMPORT_SYS, "Direct sys import not allowed">>,
    <<P_IMPORT_SUBPROCESS, "subprocess not allowed">>,
    <<P_DUNDER_IMPORT, "Dynamic imports not allowed">>,
    <<P_EVAL, "eval() not allowed">>,
    <<P_EXEC, "Nested exec() not allowed">>,
    <<P_OPEN, "Direct file operations not allowed">> >>

EXCEL_DANGEROUS == <<
    <<P_IMPORT_OS, "Direct os import is not allowed">>,
    <<P_IMPORT_SYS, "Direct sys import is not allowed">>,
    <<P_IMPORT_SUBPROCESS, "subprocess is not allowed">>,
    <<P_DUNDER_IMPORT, "Dynamic imports are not allowed">>,
    <<P_EVAL, "eval() is not allowed">>,
    <<P_EXEC, "Nested exec() is not allowed">>,
    <<P_OPEN, "File operations are not allowed">>,
    <<P_WB_SAVE, "wb.save() should not be included - the app handles saving">>,
    <<P_WB_CLOSE, "wb.close() should not be included">> >>

MSG_EMPTY == "Script is empty"
MSG_PPTX_DECK == "Script must create 'deck' using ADIPresentation"
MSG_POWERPOINT_DECK == "Script must create 'deck' variable using ADIPresentation"
MSG_POWERPOINT_SAVE == "Do not include save() in script - application handles saving"
MSG_EXCEL_WB == "Script must create a workbook object named 'wb'"

\* `not script or not script.strip()`; the sampled texts hold no white space
\* other than the blank
IsBlank(script) == \A i \in 1..Len(script) : script[i] = " "

\* a validator that finds no pattern in any script
first_denied_none(dangerous, script) == ""

\* `for pattern, message in dangerous: if pattern in script: return False,
\* message`: the message of the first pattern found, "" when none is
first_denied(dangerous, script) ==
    IF \E i \in 1..Len(dangerous) : Contains(script, dangerous[i][1])
    THEN dangerous[CHOOSE i \in 1..Len(dangerous) :
                       /\ Contains(script, dangerous[i][1])
                       /\ \A j \in 1..(i - 1) : ~Contains(script, dangerous[j][1])][2]
    ELSE ""

\* the (is_valid, message) pair a validator returns
Invalid(message) == <<FALSE, message>>
Valid == <<TRUE, "">>

\* PPTXScriptExecutor.validate_script of pptx_executor.py
pptx_validate_script(script) ==
    IF IsBlank(script) THEN Invalid(MSG_EMPTY)
    ELSE IF first_denied(PPTX_DANGEROUS, script) # ""
    THEN Invalid(first_denied(PPTX_DANGEROUS, script))
    ELSE IF ~Contains(script, W_DECK) /\ ~Contains(script, W_ADIPRESENTATION)
    THEN Invalid(MSG_PPTX_DECK)
    ELSE Valid

\* validate_script of powerpoint_processor.py, the function execute() calls
powerpoint_validate_script(script) ==
    IF IsBlank(script) THEN Invalid(MSG_EMPTY)
    ELSE IF first_denied(POWERPOINT_DANGEROUS, script) # ""
    THEN Invalid(first_denied(POWERPOINT_DANGEROUS, script))
    ELSE IF ~Contains(script, W_DECK) /\ ~Contains(script, W_ADIPRESENTATION)
    THEN Invalid(MSG_POWERPOINT_DECK)
    ELSE IF Contains(script, P_SAVE) THEN Invalid(MSG_POWERPOINT_SAVE)
    ELSE Valid

\* ExcelScriptExecutor.validate_script of excel_processor.py
excel_validate_script(script) ==
    IF IsBlank(script) THEN Invalid(MSG_EMPTY)
    ELSE IF first_denied(EXCEL_DANGEROUS, script) # ""
    THEN Invalid(first_denied(EXCEL_DANGEROUS, script))
    ELSE IF ~Contains(script, W_WB) /\ ~Contains(script, W_WORKBOOK)
    THEN Invalid(MSG_EXCEL_WB)
    ELSE Valid

Executors == {"pptx_executor", "powerpoint_processor", "excel_processor"}

validate_script(executor, script) ==
    IF executor = "pptx_executor" THEN pptx_validate_script(script)
    ELSE IF executor = "powerpoint_processor" THEN powerpoint_validate_script(script)
    ELSE excel_validate_script(script)

\* ExecutionResult(success, presentation or workbook, error_message, traceback)
ExecutionResult(success, document, error_message, traceback_str) ==
    [success |-> success, document |-> document, error_message |-> error_message,
     traceback |-> traceback_str]

\* what exec(script, namespace, namespace) can do, as execute() tells it apart:
\* the script binds the document name to a document, to something else, or
\* not at all, or it raises
ExecOutcomes == {"document", "other_object", "unbound", "SyntaxError", "Exception"}

\* the part of execute() from `namespace = ...copy()` on
executed(outcome) ==
    [result |-> IF outcome = "document"
                THEN ExecutionResult(TRUE, "document", "", "")
                ELSE IF outcome \in {"other_object", "unbound"}
                THEN ExecutionResult(FALSE, None, outcome, "")
                ELSE ExecutionResult(FALSE, None, outcome, "traceback"),
     log |-> <<Ev("exec", "")>>]

\* execute(script, validate) of the three executors: the result and the
\* events, validation first
execute(executor, script, validate, outcome) ==
    IF validate
    THEN IF ~validate_script(executor, script)[1]
         THEN [result |-> ExecutionResult(FALSE, None,
                                          validate_script(executor, script)[2], ""),
               log |-> <<Ev("validate", "")>>]
         ELSE [executed(outcome) EXCEPT !.log = <<Ev("validate", "")>> \o @]
    ELSE executed(outcome)

\* the texts scripts are sampled from: every pattern of the three lists, the
\* names the validators require, a blank and a harmless statement
ScriptFragments == <<P_IMPORT_OS, P_IMPORT_SYS, P_IMPORT_SUBPROCESS, P_DUNDER_IMPORT,
                     P_EVAL, P_EXEC, P_OPEN, P_SAVE, P_WB_SAVE, P_WB_CLOSE,
                     W_DECK, W_WB, <<" ">>, <<"x", "=", "1">>>>

RECURSIVE JoinFragments(_)
JoinFragments(picks) ==
    IF picks = <<>> THEN <<>>
    ELSE ScriptFragments[Head(picks)] \o JoinFragments(Tail(picks))

\* scripts of up to MaxFragments fragments
Scripts == {JoinFragments(picks) :
               picks \in SeqsUpTo(1..Len(ScriptFragments), MaxFragments)}

\* a script has been handed to the application
InitExec ==
    /\ fs = FileSystem(NoFile, NoFile)
    /\ NoExtractor
    /\ applier_colors = None
    /\ calls = 0
    /\ \E script \in Scripts : op = [name |-> "submit", script |-> script]
    /\ ret = None
    /\ err = NoErr
    /\ log = <<>>

\* executor.execute(script, validate) on the submitted script; the executors
\* keep nothing from one call to the next (each call copies the namespace)
Execute(executor, validate) ==
    /\ op.name = "submit"
    /\ \E outcome \in ExecOutcomes :
       \E o \in {execute(executor, op.script, validate, outcome)} :
           /\ ret' = o.result
           /\ log' = o.log
    /\ op' = [name |-> "execute", executor |-> executor, script |-> op.script,
              validate |-> validate]
    /\ err' = NoErr
    /\ calls' = calls + 1
    /\ UNCHANGED <<fs, template_path, theme_colors, theme_name, font_scheme,
                   raw_theme_xml, applier_colors>>

NextExec == \E executor \in Executors : \E validate \in BOOLEAN : Execute(executor, validate)

SpecExec == InitExec /\ [][NextExec]_vars

-----------------------------------------------------------------------------
(* Round trips: a package is patched, or given a template's theme, into    *)
(* out.pptx, and a new extractor is then built on a package and run         *)

\* the packages patched: the sampled themes at the conventional path, a theme
\* at another path, and a package without any theme
PatchPackages ==
    {Zip(<<Member(THEME1_PATH, doc), Member(N_PRESENTATION, Bin(23))>>) : doc \in Docs}
    \cup {Zip(<<Member(N_THEME2, SYS_DOC)>>), Zip(<<Member(N_PRESENTATION, Bin(23))>>)}

\* the raw-colour maps of the round trip
TripMaps == ColorMaps \cup {<<<<"lt1", V_C0FFEE>>, <<"dk1", V_123456>>>>}

InitPatchTrip ==
    /\ \E package \in PatchPackages : fs = FileSystem(NoFile, package)
    /\ applier_colors \in TripMaps
    /\ NoExtractor
    /\ Quiet

NextPatchTrip ==
    \/ ApplyColors("target.pptx", "out.pptx")
    \/ \E path \in {"target.pptx", "out.pptx"} : Construct(path)
    \/ Extract

SpecPatchTrip == InitPatchTrip /\ [][NextPatchTrip]_vars

\* the templates whose theme is copied: the sampled listings, and themes at
\* the conventional path next to a slide master
CopyTemplates ==
    {ListedZip(l) : l \in Listings}
    \cup {Zip(<<Member(THEME1_PATH, doc), Member(N_MASTER1, Bin(11))>>) : doc \in EmitDocs}

\* the targets: with a theme of their own, and without
CopyTargets == {SMALL_TARGET, Zip(<<Member(N_PRESENTATION, Bin(23))>>)}

InitCopyTrip ==
    /\ \E template \in CopyTemplates : \E target \in CopyTargets :
           fs = FileSystem(template, target)
    /\ applier_colors = None
    /\ NoExtractor
    /\ Quiet

NextCopyTrip ==
    \/ CopyTheme("template.pptx", "target.pptx", "out.pptx")
    \/ \E path \in {"template.pptx", "out.pptx"} : Construct(path)
    \/ Extract

SpecCopyTrip == InitCopyTrip /\ [][NextCopyTrip]_vars

-----------------------------------------------------------------------------
(* The generators of one extractor whose template may be rewritten between *)
(* the calls                                                               *)

\* a theme with a name and fonts and no role element
COLOURLESS_DOC == ThemeDoc(<<>>, "plain")

GenTemplates ==
    {Zip(<<Member(THEME1_PATH, doc)>>) : doc \in {TWO_ROLE_DOC, OTHER_DOC, COLOURLESS_DOC}}
    \cup {THEMELESS}

InitGen ==
    /\ \E template \in GenTemplates : fs = FileSystem(template, NoFile)
    /\ SetExtractorTo(construct(fs, "template.pptx").self)
    /\ applier_colors = None
    /\ calls = 0
    /\ op = [name |-> "construct", path |-> "template.pptx", pre |-> fs,
             pre_self |-> Extractor]
    /\ ret = None
    /\ err = NoErr
    /\ log = <<>>

NextGen ==
    \/ Extract
    \/ \E zip \in GenTemplates : RewriteTemplate(zip)
    \/ \E now \in Clock : GeneratePythonConfig("theme_config.py", now)
    \/ \E now \in Clock : GenerateJsonConfig("theme_colors.json", now)

SpecGen == InitGen /\ [][NextGen]_vars

-----------------------------------------------------------------------------
(* Claims                                                                  *)

SEMANTIC_KEYS == <<"primary_dark", "primary_light", "secondary_dark", "secondary_light",
                   "accent1", "accent2", "accent3", "accent4", "accent5", "accent6",
                   "hyperlink", "followed_hyperlink">>

SlotDefault == <<DEF_dk1, DEF_lt1, DEF_dk2, DEF_lt2, DEF_accent1, DEF_accent2,
                 DEF_accent3, DEF_accent4, DEF_accent5, DEF_accent6,
                 DEF_hlink, DEF_folHlink>>

\* C1: for every raw colour set, get_color_mapping returns exactly the 12
\* semantic keys, every value non-empty; slot number i holds the raw value of
\* role number i when that role is present, and otherwise slot i's own default.
C1_TotalSemanticMapping ==
    op.name = "get_color_mapping" =>
        /\ Len(ret) = 12
        /\ DictKeys(ret) = {SEMANTIC_KEYS[i] : i \in 1..12}
        /\ \A i \in 1..12 :
            /\ ret[i][1] = SEMANTIC_KEYS[i]
            /\ ret[i][2] # <<>>
            /\ \A j \in 1..Len(theme_colors) :
                   theme_colors[j][1] = COLOR_NAMES[i] => ret[i][2] = theme_colors[j][2]
            /\ (\A j \in 1..Len(theme_colors) : theme_colors[j][1] # COLOR_NAMES[i])
                   => ret[i][2] = SlotDefault[i]

\* a mapping computed from a raw set that has some roles and lacks others
C1_Witness ==
    /\ op.name = "get_color_mapping"
    /\ DictKeys(theme_colors) = {"dk1", "accent1"}
    /\ DictGet(ret, "secondary_light", None) = DEF_lt2
    /\ DictGet(ret, "accent1", None) = DictGet(theme_colors, "accent1", None)

\* the template archive as it was when the last operation was called
TemplateBefore == op.pre["template.pptx"]

\* extract() has returned on an extractor that held nothing before the call
FreshExtractDone ==
    /\ op.name = "extract"
    /\ err = NoErr
    /\ op.pre_self.theme_colors = EmptyDict
    /\ op.pre_self.font_scheme = EmptyDict

IsClrScheme(elem) == elem.local = "clrScheme"

RECURSIVE ChildrenOfAll(_)
ChildrenOfAll(elems) ==
    IF elems = <<>> THEN <<>>
    ELSE Head(elems).children \o ChildrenOfAll(Tail(elems))

\* the children of every colour-scheme element of the document, in order
SchemeChildren(root) == ChildrenOfAll(SelectSeq(Iter(root), IsClrScheme))

\* the elements of the sequence named `tag`
Named(elems, tag) == {elems[i] : i \in {k \in 1..Len(elems) : elems[k].local = tag}}

Recognized(child) == child.local \in {"srgbClr", "sysClr"}

\* the attribute that carries the colour of a recognised colour definition
CarriedValue(child) ==
    IF child.local = "srgbClr" THEN AttrGet(child, "val", <<>>)
    ELSE AttrGet(child, "lastClr", <<>>)

\* C2: a role element that wraps one colour definition extracts to `val`
\* uppercased when the definition is srgbClr and to `lastClr` uppercased when
\* it is sysClr, whatever symbolic name `val` holds; sysClr with
\* val="windowText" and lastClr="1a2b3c" extracts to "1A2B3C".
C2_ValueByForm ==
    FreshExtractDone =>
        \A role \in Roles :
            LET elems == Named(SchemeChildren(raw_theme_xml.root), role)
            IN  \A e \in elems :
                    (Cardinality(elems) = 1 /\ Len(e.children) = 1) =>
                        LET c == e.children[1]
                        IN  /\ (c.local = "srgbClr" /\ AttrGet(c, "val", <<>>) # <<>>)
                                => DictGet(theme_colors, role, None)
                                       = Upper(AttrGet(c, "val", <<>>))
                            /\ (c.local = "sysClr" /\ AttrGet(c, "lastClr", <<>>) # <<>>)
                                => DictGet(theme_colors, role, None)
                                       = Upper(AttrGet(c, "lastClr", <<>>))
                            /\ c = SysClr(V_windowText, V_1a2b3c)
                                => DictGet(theme_colors, role, None) = V_1A2B3C

\* the system-colour scenario: dk1 is the only role of the theme
C2_Witness ==
    /\ FreshExtractDone
    /\ SchemeChildren(raw_theme_xml.root)
           = <<E(A_NS, "dk1", NoAttrs, <<SysClr(V_windowText, V_1a2b3c)>>)>>
    /\ theme_colors = <<<<"dk1", V_1A2B3C>>>>

\* the original statement of C3: the keys are the roles that appear with a
\* recognised colour-definition child
C3_Original ==
    FreshExtractDone =>
        DictKeys(theme_colors)
            = {role \in Roles :
                  \E e \in Named(SchemeChildren(raw_theme_xml.root), role) :
                      \E i \in 1..Len(e.children) : Recognized(e.children[i])}

\* the first recognised colour definition of a role element carries a value
HasValue(e) ==
    \E i \in 1..Len(e.children) :
        /\ Recognized(e.children[i])
        /\ \A j \in 1..(i - 1) : ~Recognized(e.children[j])
        /\ CarriedValue(e.children[i]) # <<>>

\* C3 (amended): after extract() on a fresh extractor the keys of the raw set
\* are exactly the roles with a role element whose first recognised colour
\* definition carries a non-empty value; any other role is absent, no default
\* is applied, and extraction succeeds. A theme with only accent1=FF0000 and
\* dk1=000000 yields exactly those two entries.
C3_RawKeySet ==
    (/\ op.name = "extract"
     /\ op.pre_self.theme_colors = EmptyDict
     /\ raw_theme_xml # NoXml) =>
        /\ err = NoErr
        /\ DictKeys(theme_colors)
               = {role \in Roles :
                     \E e \in Named(SchemeChildren(raw_theme_xml.root), role) :
                         HasValue(e)}
        /\ raw_theme_xml = TWO_ROLE_DOC
               => /\ DictKeys(theme_colors) = {"dk1", "accent1"}
                  /\ DictGet(theme_colors, "dk1", None) = V_000000
                  /\ DictGet(theme_colors, "accent1", None) = V_FF0000

\* a role with an unrecognised form and a role with a valueless system colour
\* are both absent, and a third role is extracted
C3_Witness ==
    /\ FreshExtractDone
    /\ \E e \in Named(SchemeChildren(raw_theme_xml.root), "lt1") :
           e.children = <<SysClrNoLast(V_window)>>
    /\ \E e \in Named(SchemeChildren(raw_theme_xml.root), "accent1") :
           e.children = <<SchemeClr(V_tx1)>>
    /\ DictKeys(theme_colors) = {}
    /\ ret = EmptyDict

\* extract() was called on an extractor of the template archive
ExtractCalled == op.name = "extract" /\ TemplateBefore # NoFile

\* the member the claim's rule picks, given the test for "contains theme"
RECURSIVE FirstWhere(_, _, _)
FirstWhere(names, sensitive, i) ==
    IF i > Len(names) THEN None
    ELSE IF /\ Contains(IF sensitive THEN names[i] ELSE Lower(names[i]), STR_THEME)
            /\ EndsWith(names[i], EXT_XML)
         THEN names[i]
         ELSE FirstWhere(names, sensitive, i + 1)

Resolved(names, sensitive) ==
    IF \E i \in 1..Len(names) : names[i] = THEME1_PATH THEN THEME1_PATH
    ELSE FirstWhere(names, sensitive, 1)

\* the member extract() read, known by the name its document carries
ReadsMember(name) ==
    IF name = None THEN err = ERR_NO_THEME /\ raw_theme_xml = op.pre_self.raw_theme_xml
    ELSE err = NoErr /\ raw_theme_xml = NamedDoc(name)

NamedMembersOnly ==
    \A i \in 1..Len(TemplateBefore.members) :
        LET m == TemplateBefore.members[i]
        IN  m.data.kind = "xml" => m.data = NamedDoc(m.name)

\* the original statement of C4: the exact member ppt/theme/theme1.xml, else
\* the first member whose name contains "theme" and ends in ".xml", else a
\* theme-not-found error
C4_Original ==
    (ExtractCalled /\ NamedMembersOnly) =>
        ReadsMember(Resolved(NameList(TemplateBefore), TRUE))

\* C4 (amended): the exact member ppt/theme/theme1.xml is chosen whatever
\* else the archive holds; otherwise the first member, in listing order,
\* whose lowercased name contains "theme" and whose name ends in ".xml" (the
\* suffix compared as written); with no such member a not-found error is
\* raised.
C4_ThemeResolution ==
    (ExtractCalled /\ NamedMembersOnly) =>
        ReadsMember(Resolved(NameList(TemplateBefore), FALSE))

\* the conventional member is read although another theme file is listed first
C4_Witness ==
    /\ ExtractCalled
    /\ Len(TemplateBefore.members) = 2
    /\ TemplateBefore.members[1].name = N_THEME2
    /\ TemplateBefore.members[2].name = THEME1_PATH
    /\ err = NoErr
    /\ theme_name = THEME1_PATH

\* the archive holds no member the reader resolves as the theme
NoThemeMember(zip) ==
    \A i \in 1..Len(zip.members) :
        LET name == zip.members[i].name
        IN  /\ name # THEME1_PATH
            /\ ~(Contains(Lower(name), STR_THEME) /\ EndsWith(name, EXT_XML))

\* an operation that extracts was called on a template without theme member
ThemelessCall ==
    /\ \/ op.name \in {"extract", "generate_python_config", "generate_json_config"}
       \/ op.name = "main" /\ op.template = "template.pptx"
    /\ TemplateBefore # NoFile
    /\ NoThemeMember(TemplateBefore)

\* C5: on a valid archive without theme member, extract(),
\* generate_python_config(), generate_json_config() and main() raise a
\* not-found error, create or modify no file, and leave theme_colors,
\* font_scheme, theme_name and raw_theme_xml at their initial values.
C5_NoThemeNoOutput ==
    ThemelessCall =>
        /\ err \in NotFoundErrors
        /\ fs = op.pre
        /\ \A e \in {log[i] : i \in 1..Len(log)} : e.ev # "write"
        /\ theme_colors = EmptyDict
        /\ font_scheme = EmptyDict
        /\ theme_name = <<>>
        /\ raw_theme_xml = NoXml

\* the command line asked to apply the theme of an archive that has none
C5_Witness ==
    /\ ThemelessCall
    /\ op.name = "main"
    /\ op.apply_to = "target.pptx"
    /\ Len(TemplateBefore.members) = 2
    /\ err = ERR_NO_THEME

-----------------------------------------------------------------------------
(* Claims on the applier                                                   *)

MembersOf(zip) == {zip.members[i] : i \in 1..Len(zip.members)}

\* the files of the archive below the directory
Inside(zip, dir) ==
    {m \in MembersOf(zip) : StartsWith(m.name, dir) /\ m.data.kind # "dir"}

\* the archive holds the directory: an entry for it, or a file below it
HasSubtree(zip, dir) == \E m \in MembersOf(zip) : StartsWith(m.name, dir)

Subtrees == {THEME_DIR, MASTERS_DIR, LAYOUTS_DIR}

Events == {log[i] : i \in 1..Len(log)}

\* an operation was called with a package path that does not exist
MissingCall ==
    \/ op.name = "construct" /\ op.pre[op.path] = NoFile
    \/ /\ op.name = "copy_theme_from_template"
       /\ (op.pre[op.template] = NoFile \/ op.pre[op.target] = NoFile)
    \/ op.name = "apply_colors_to_theme_xml" /\ op.pre[op.target] = NoFile

\* the original statement of C6: the not-found error is raised before any
\* package is opened or extracted into a temporary workspace
C6_Original ==
    MissingCall =>
        /\ err \in NotFoundErrors
        /\ fs = op.pre
        /\ \A e \in Events : e.ev \notin {"open", "extractall", "write"}

\* C6 (amended): with a missing template or target path the operation raises
\* a not-found error, nothing has been written and the missing package has
\* not been opened; but copy mode, given an existing template and a missing
\* target, has opened and extracted the template into the temporary workspace
\* by the time the error is raised. That is the only extraction work done.
C6_NotFoundFirst ==
    MissingCall =>
        /\ err \in NotFoundErrors
        /\ fs = op.pre
        /\ \A e \in Events :
            /\ e.ev # "write"
            /\ e.ev \in {"open", "extractall"} =>
                /\ op.name = "copy_theme_from_template"
                /\ e.path = op.template
                /\ op.pre[op.template] # NoFile
                /\ op.pre[op.target] = NoFile
        /\ (op.name = "copy_theme_from_template" /\ op.pre[op.template] # NoFile)
               => \E e \in Events : e.ev = "extractall" /\ e.path = op.template

\* copy mode met a missing target after extracting the template
C6_Witness ==
    /\ MissingCall
    /\ op.name = "copy_theme_from_template"
    /\ op.pre[op.template] # NoFile
    /\ err = ERR_ENOENT
    /\ Ev("extractall", "template.pptx") \in Events
    /\ fs["out.pptx"] = NoFile

CopyDone == op.name = "copy_theme_from_template" /\ err = NoErr

CopyTemplate == op.pre[op.template]
CopyTarget == op.pre[op.target]
CopyOutput == fs[op.output]

Names(members) == {m.name : m \in members}

\* the theme XML of a package, as the container reader resolves it
ThemeXmlOf(zip) ==
    IF find_theme_path(zip) = None THEN NoXml
    ELSE ZipRead(zip, find_theme_path(zip))

\* the original statement of C7: whatever the template and the target, the
\* output's theme XML is the template's, and no file of the target's three
\* subtrees survives unless the template has a file at the same path
C7_Original ==
    CopyDone =>
        /\ ThemeXmlOf(CopyOutput) = ThemeXmlOf(CopyTemplate)
        /\ \A dir \in Subtrees :
               \A m \in Inside(CopyTarget, dir) :
                   m.name \in Names(MembersOf(CopyOutput))
                       => m.name \in Names(Inside(CopyTemplate, dir))

\* C7 (amended): after copy mode completes, for each of the three subtrees
\* that the template contains, the output's files below it are exactly the
\* template's files below it, with the template's contents (a replace, not a
\* merge: no file of the target's prior subtree survives unless the template
\* has a file at that path); and when the template holds ppt/theme/theme1.xml
\* the output's theme XML is identical to the template's theme XML.
C7_CopyReplaces ==
    CopyDone =>
        /\ \A dir \in Subtrees :
               HasSubtree(CopyTemplate, dir) =>
                   /\ Inside(CopyOutput, dir) = Inside(CopyTemplate, dir)
                   /\ \A m \in Inside(CopyTarget, dir) :
                          m.name \in Names(MembersOf(CopyOutput))
                              => m.name \in Names(Inside(CopyTemplate, dir))
        /\ THEME1_PATH \in Names(MembersOf(CopyTemplate)) =>
               /\ ThemeXmlOf(CopyOutput) = ThemeXmlOf(CopyTemplate)
               /\ \A m \in MembersOf(CopyOutput) :
                      m.name = THEME1_PATH => m.data = ThemeXmlOf(CopyTemplate)

\* the target's two theme files are gone, the template's one has replaced them
C7_Witness ==
    /\ CopyDone
    /\ Names(Inside(CopyTarget, THEME_DIR)) = {THEME1_PATH, N_THEME2}
    /\ Names(Inside(CopyTemplate, THEME_DIR)) = {THEME1_PATH}
    /\ Names(Inside(CopyOutput, THEME_DIR)) = {THEME1_PATH}
    /\ ThemeXmlOf(CopyOutput) = TWO_ROLE_DOC
    /\ ThemeXmlOf(CopyTarget) = SYS_DOC

\* C8: each of the three subtrees is handled on its own: the target's subtree
\* is deleted and replaced if and only if the template contains that subtree;
\* a subtree the template lacks appears in the output with exactly the
\* target's original files and contents.
C8_SubtreesIndependent ==
    CopyDone =>
        \A dir \in Subtrees :
            IF HasSubtree(CopyTemplate, dir)
            THEN Inside(CopyOutput, dir) = Inside(CopyTemplate, dir)
            ELSE Inside(CopyOutput, dir) = Inside(CopyTarget, dir)

\* the theme is replaced while the layouts, which the template lacks, stay
C8_Witness ==
    /\ CopyDone
    /\ HasSubtree(CopyTemplate, THEME_DIR)
    /\ ~HasSubtree(CopyTemplate, LAYOUTS_DIR)
    /\ Inside(CopyTarget, LAYOUTS_DIR) = {Member(N_LAYOUT1, Bin(22))}
    /\ Inside(CopyOutput, LAYOUTS_DIR) = {Member(N_LAYOUT1, Bin(22))}
    /\ Inside(CopyTarget, THEME_DIR) # Inside(CopyOutput, THEME_DIR)

\* patch mode has returned on a package that holds ppt/theme/theme1.xml
PatchDone ==
    /\ op.name = "apply_colors_to_theme_xml"
    /\ err = NoErr
    /\ THEME1_PATH \in Names(MembersOf(op.pre[op.target]))

ThemeRootOf(zip) == ZipRead(zip, THEME1_PATH).root

\* the colour-scheme elements of the theme before and after the patch
SchemesBefore == SelectSeq(Iter(ThemeRootOf(op.pre[op.target])), IsClrScheme)
SchemesAfter == SelectSeq(Iter(ThemeRootOf(fs[op.output])), IsClrScheme)

\* the position of the first child of that name
FirstNamed(children, tag) ==
    CHOOSE k \in 1..Len(children) :
        /\ children[k].local = tag
        /\ \A j \in 1..(k - 1) : children[j].local # tag

\* C9: after patch mode with the raw-colour map M, for every pair (role, hex)
\* of M with non-empty hex whose role element exists in the theme's
\* colour-scheme element, that role element has exactly one child, an srgbClr
\* element whose val is hex, whatever children it had before.
C9_PatchedRole ==
    PatchDone =>
        \A i \in 1..Len(applier_colors) :
            LET role == applier_colors[i][1]
                hex == applier_colors[i][2]
                before == SchemesBefore[1].children
                after == SchemesAfter[1].children
            IN  (hex # <<>> /\ \E k \in 1..Len(before) : before[k].local = role) =>
                    LET k == FirstNamed(before, role)
                    IN  /\ Len(after) = Len(before)
                        /\ after[k].local = role
                        /\ Len(after[k].children) = 1
                        /\ after[k].children[1].local = "srgbClr"
                        /\ after[k].children[1].ns = A_NS
                        /\ after[k].children[1].attrs = <<<<"val", hex>>>>
                        /\ after[k].children[1].children = <<>>

\* a role element with two children is left with the one new srgbClr child
C9_Witness ==
    /\ PatchDone
    /\ applier_colors = <<<<"custClr", V_AAAAAA>>, <<"hlink", V_ff0000>>>>
    /\ Len(SchemesBefore[1].children) = 2
    /\ SchemesBefore[1].children[2]
           = E(A_NS, "hlink", NoAttrs, <<SchemeClr(V_tx1), Srgb(V_00f)>>)
    /\ SchemesAfter[1].children[2] = E(A_NS, "hlink", NoAttrs, <<Srgb(V_ff0000)>>)

\* the keys of the map that carry a value
PatchedKeys ==
    {applier_colors[i][1] :
        i \in {k \in 1..Len(applier_colors) : applier_colors[k][2] # <<>>}}

\* C10: patch mode leaves every role that is no key of the input map, or a
\* key with an empty value, as it was: the same children, the same
\* colour-definition form (a system colour stays one) and the same value, in
\* every colour scheme of the theme.
C10_OtherRolesUntouched ==
    PatchDone =>
        /\ Len(SchemesAfter) = Len(SchemesBefore)
        /\ \A s \in 1..Len(SchemesBefore) :
            /\ Len(SchemesAfter[s].children) = Len(SchemesBefore[s].children)
            /\ \A k \in 1..Len(SchemesBefore[s].children) :
                   SchemesBefore[s].children[k].local \notin PatchedKeys
                       => SchemesAfter[s].children[k] = SchemesBefore[s].children[k]

\* dk1, a key with an empty value, keeps its system colour; accent1 is patched
C10_Witness ==
    /\ PatchDone
    /\ DictGet(applier_colors, "dk1", None) = <<>>
    /\ SchemesBefore[1].children
           = <<E(A_NS, "dk1", NoAttrs, <<SysClr(V_windowText, V_1a2b3c)>>),
               E(A_NS, "accent1", NoAttrs, <<SchemeClr(V_tx1)>>)>>
    /\ SchemesAfter[1].children
           = <<E(A_NS, "dk1", NoAttrs, <<SysClr(V_windowText, V_1a2b3c)>>),
               E(A_NS, "accent1", NoAttrs, <<Srgb(V_a1b2c3)>>)>>

-----------------------------------------------------------------------------
(* Claims on what patch mode leaves alone                                  *)

RECURSIVE MaskSwatches(_, _)
\* the element with the children of every role element of a colour scheme
\* taken out: what a patch of the twelve swatches may not change
MaskSwatches(elem, in_scheme) ==
    IF in_scheme /\ elem.local \in Roles
    THEN [elem EXCEPT !.children = <<>>]
    ELSE [elem EXCEPT !.children =
             [i \in 1..Len(elem.children) |->
                 MaskSwatches(elem.children[i], elem.local = "clrScheme")]]

\* the files of an archive other than ppt/theme/theme1.xml
OtherFiles(zip) ==
    {m \in MembersOf(zip) : m.name # THEME1_PATH /\ m.data.kind # "dir"}

\* C11: patch mode changes nothing except the twelve colour swatches of the
\* colour scheme: for any input map, keys that are no role names included,
\* every package member other than the theme XML is unchanged in the output,
\* and in the theme XML every element other than the children of the role
\* elements of the colour scheme is unchanged.
C11_OnlySwatches ==
    PatchDone =>
        /\ OtherFiles(fs[op.output]) = OtherFiles(op.pre[op.target])
        /\ MaskSwatches(ThemeRootOf(fs[op.output]), FALSE)
               = MaskSwatches(ThemeRootOf(op.pre[op.target]), FALSE)

-----------------------------------------------------------------------------
(* Claims on the temporary working directory                               *)

\* the last operation worked in a temporary directory
TempDirCall ==
    op.name \in {"copy_theme_from_template", "apply_colors_to_theme_xml"}

\* C12: on every exit path of copy_theme_from_template and
\* apply_colors_to_theme_xml, normal return or exception, the temporary
\* working directory no longer exists once the call has returned or raised:
\* it is created once, removed once, and its removal is the last thing done.
C12_TempDirRemoved ==
    TempDirCall =>
        /\ Len(log) >= 2
        /\ log[1] = Ev("mkdtemp", "")
        /\ log[Len(log)] = Ev("rmtemp", "")
        /\ \A i \in 2..(Len(log) - 1) : log[i].ev \notin {"mkdtemp", "rmtemp"}

\* copy mode raised after it had extracted the template into the directory
C12_Witness ==
    /\ op.name = "copy_theme_from_template"
    /\ err # NoErr
    /\ Len(log) = 4
    /\ log[3] = Ev("extractall", op.template)
    /\ log[4] = Ev("rmtemp", "")

-----------------------------------------------------------------------------
(* Claims on the emitted artifacts                                         *)

\* an artifact without its timestamp
NoStamp(file) ==
    IF file.kind = "py" THEN [file EXCEPT !.extracted = 0]
    ELSE IF file.kind = "json" THEN [file EXCEPT !.extracted_date = 0]
    ELSE file

\* a generator has written its artifact over one written earlier
ReEmitted(name, path) ==
    /\ op.name = name
    /\ err = NoErr
    /\ op.pre[path] # NoFile

\* C13: emission is idempotent modulo the timestamp: with the template
\* unmodified, however often it has been extracted, generate_python_config and
\* generate_json_config write to the same path an artifact identical to the
\* one written before except for the timestamp: the raw, semantic, accent and
\* font entries have the same order and content.
C13_EmissionIdempotent ==
    /\ ReEmitted("generate_python_config", "theme_config.py") =>
           NoStamp(fs["theme_config.py"]) = NoStamp(op.pre["theme_config.py"])
    /\ ReEmitted("generate_json_config", "theme_colors.json") =>
           NoStamp(fs["theme_colors.json"]) = NoStamp(op.pre["theme_colors.json"])

\* the module is written again at another time, the same but for the time
C13_Witness ==
    /\ ReEmitted("generate_python_config", "theme_config.py")
    /\ fs["theme_config.py"].extracted # op.pre["theme_config.py"].extracted
    /\ DictKeys(fs["theme_config.py"].THEME_COLORS_RAW) = {"dk1", "accent1", "lt1"}
    /\ DictGet(fs["theme_config.py"].THEME_COLORS_RAW, "dk1", None) = V_AAAAAA

-----------------------------------------------------------------------------
(* Claims on the helpers of the generated module                           *)

\* C14: for every integer i, negative, in 0..5 or >= 6, get_accent_color(i)
\* equals get_accent_color(i mod 6) with i mod 6 in 0..5, never raises an
\* index error, and is one of the 6 entries of ACCENT_COLORS.
C14_AccentWraps ==
    op.name = "get_accent_color" =>
        /\ (op.index % 6) \in 0..5
        /\ ret = get_accent_color(op.index % 6)
        /\ ret = ACCENT_COLORS[(op.index % 6) + 1]
        /\ ret # INDEX_ERROR
        /\ ret \in {ACCENT_COLORS[k] : k \in 1..6}

\* an index below -6 is answered with the last accent
C14_Witness ==
    /\ op.name = "get_accent_color"
    /\ op.index = 0 - 7
    /\ ret = "#C81A28"

\* C15: for every valid 6-hex-digit string h, in upper, lower or mixed case,
\* rgb_to_hex(*hex_to_rgb(h)) equals h uppercased, and hex_to_rgb returns
\* three components each in 0..255.
C15_HexRoundTrip ==
    /\ op.name = "hex_to_rgb" =>
           /\ Len(ret) = 3
           /\ \A k \in 1..3 : ret[k] \in 0..255
    /\ op.name = "rgb_to_hex" =>
           /\ ret = Upper(op.h)
           /\ \A k \in 1..3 : op.rgb[k] \in 0..255

\* a mixed-case colour has come back in upper case
C15_Witness ==
    /\ op.name = "rgb_to_hex"
    /\ op.h = <<"A", "b", "c", "D", "7", "f">>
    /\ op.rgb = <<171, 205, 127>>
    /\ ret = <<"A", "B", "C", "D", "7", "F">>

\* the Python module has just been written
ModuleWritten == op.name = "generate_python_config" /\ err = NoErr

EmittedModule == fs["theme_config.py"]

\* the value of semantic slot i for a raw colour set: the role's raw value
\* when the role is present, the slot's default otherwise
SlotValue(raw, i) ==
    IF \E j \in 1..Len(raw) : raw[j][1] = COLOR_NAMES[i]
    THEN raw[CHOOSE j \in 1..Len(raw) : raw[j][1] = COLOR_NAMES[i]][2]
    ELSE SlotDefault[i]

\* C16: in the emitted Python module ACCENT_COLORS is a 6-tuple whose k-th
\* entry is "#" followed by the semantic map's accent(k+1) value, in the order
\* accent1..accent6, a role absent from the raw set contributing its default;
\* the primary accent constant is "#" + semantic accent1, the dark and light
\* background constants are "#" + primary_dark and "#" + primary_light, and the
\* two text-colour constants mirror those same two values.
C16_DerivedConstants ==
    ModuleWritten =>
        LET f == EmittedModule
            raw == f.THEME_COLORS_RAW
        IN  /\ raw = theme_colors
            /\ Len(f.ACCENT_COLORS) = 6
            /\ \A k \in 1..6 :
                /\ f.ACCENT_COLORS[k] = <<"#">> \o SlotValue(raw, 4 + k)
                /\ f.ACCENT_COLORS[k] = <<"#">> \o f.THEME_COLORS[4 + k][2]
                /\ f.THEME_COLORS[4 + k][1] = SEMANTIC_KEYS[4 + k]
            /\ f.PRIMARY_COLOR = <<"#">> \o SlotValue(raw, 5)
            /\ f.DARK_BACKGROUND = <<"#">> \o SlotValue(raw, 1)
            /\ f.LIGHT_BACKGROUND = <<"#">> \o SlotValue(raw, 2)
            /\ f.TEXT_ON_LIGHT = f.DARK_BACKGROUND
            /\ f.TEXT_ON_DARK = f.LIGHT_BACKGROUND

\* a module from a theme with dk1 and accent1 only: accent2 and the light
\* background are defaults, the dark background is the theme's dk1
C16_Witness ==
    /\ ModuleWritten
    /\ EmittedModule.ACCENT_COLORS[1] = <<"#">> \o V_FF0000
    /\ EmittedModule.ACCENT_COLORS[2] = <<"#">> \o DEF_accent2
    /\ EmittedModule.DARK_BACKGROUND = <<"#">> \o V_1A2B3C
    /\ EmittedModule.TEXT_ON_LIGHT = <<"#">> \o V_1A2B3C
    /\ EmittedModule.TEXT_ON_DARK = <<"#">> \o DEF_lt1

\* a ThemeApplier has been constructed from an artifact the generators wrote
LoadedFrom(path) ==
    /\ op.name = "applier_init"
    /\ op.path = path
    /\ op.pre[path] # NoFile

\* C17: a ThemeApplier constructed from the JSON sidecar written by
\* generate_json_config holds a raw-colour map equal to the extractor's raw
\* colour set, same keys and same values; and so does a ThemeApplier
\* constructed from the generated Python module through THEME_COLORS_RAW.
C17_EmitLoadRoundTrip ==
    /\ LoadedFrom("theme_colors.json") =>
           /\ err = NoErr
           /\ applier_colors = theme_colors
    /\ LoadedFrom("theme_config.py") =>
           /\ err = NoErr
           /\ applier_colors = theme_colors

\* The JSON half of C17 on its own holds: json.dump escapes what json.load
\* unescapes.
C17_JsonHalf ==
    LoadedFrom("theme_colors.json") => err = NoErr /\ applier_colors = theme_colors

\* main() ran on a template from which construction and extract() succeed
MainExtracted ==
    /\ op.name = "main"
    /\ construct(op.pre, op.template).err = NoErr
    /\ extract(op.pre, construct(op.pre, op.template).self).err = NoErr

\* the positions of the log at which `path` was written
WritesOf(path) == {i \in 1..Len(log) : log[i] = Ev("write", path)}

\* the run wrote the Python module, then the JSON sidecar, and with an
\* --apply-to target copied the template's theme onto it, in place, after both
BothThenApply ==
    /\ WritesOf("theme_config.py") # {}
    /\ WritesOf("theme_colors.json") # {}
    /\ \A i \in WritesOf("theme_config.py") :
       \A j \in WritesOf("theme_colors.json") : i < j
    /\ fs["theme_config.py"].kind = "py"
    /\ fs["theme_colors.json"].kind = "json"
    /\ op.apply_to = NoPath =>
           /\ \A i \in 1..Len(log) : log[i].ev = "write" =>
                  log[i].path \in {"theme_config.py", "theme_colors.json"}
           /\ fs["target.pptx"] = op.pre["target.pptx"]
    /\ op.apply_to # NoPath =>
           /\ WritesOf(op.apply_to) # {}
           /\ \A k \in WritesOf(op.apply_to) :
              \A j \in WritesOf("theme_colors.json") : j < k
           /\ \A i \in 1..Len(log) : log[i].ev = "write" =>
                  log[i].path \in {"theme_config.py", "theme_colors.json",
                                   op.apply_to}
           /\ \A dir \in Subtrees :
                  HasSubtree(op.pre[op.template], dir) =>
                      Inside(fs[op.apply_to], dir) = Inside(op.pre[op.template], dir)

\* C18: a command-line run on a template from which extraction succeeds
\* always writes both artifacts, the Python module and then the JSON sidecar,
\* whatever colour values were extracted; with --apply-to it also copies the
\* template's theme onto the named target, in place, after both were written.
C18_MainWritesBoth ==
    MainExtracted => err = NoErr /\ BothThenApply

\* What holds of C18: a run that gets past the colour preview does all of it,
\* and a run the preview ends has written nothing.
C18_WhenPreviewReturns ==
    MainExtracted =>
        \/ err = NoErr /\ BothThenApply
        \/ /\ err = ERR_VALUE
           /\ \E i \in 1..Len(theme_colors) : ~PreviewParses(theme_colors[i][2])
           /\ fs = op.pre

\* a run with --apply-to on a theme of well-formed colours did all three steps
C18_RunCompletes ==
    /\ MainExtracted
    /\ err = NoErr
    /\ op.apply_to = "target.pptx"
    /\ theme_colors # EmptyDict
    /\ BothThenApply

\* a run on a theme holding a three-character value ended in the preview
C18_PreviewRaises ==
    /\ MainExtracted
    /\ err = ERR_VALUE
    /\ \E i \in 1..Len(theme_colors) : Len(theme_colors[i][2]) = 3
    /\ fs["theme_config.py"] = NoFile
    /\ fs["theme_colors.json"] = NoFile

\* a 6-hex-digit uppercase string (no "#", which is no hex digit)
IsHex6Upper(v) ==
    /\ Len(v) = 6
    /\ \A k \in 1..6 : \E n \in 1..16 : HEX_UPPER[n] = v[k]

\* no character of v has an upper-case form other than itself
NoLowerCase(v) == \A k \in 1..Len(v) : \A n \in 1..26 : v[k] # LowerLetters[n]

\* the same text, up to the case of its letters
SameUpToCase(a, v) ==
    /\ Len(a) = Len(v)
    /\ \A k \in 1..Len(a) :
           \/ a[k] = v[k]
           \/ \E n \in 1..26 : a[k] = LowerLetters[n] /\ v[k] = UpperLetters[n]

\* the attribute texts that colour children of the scheme's `role` elements
\* carry: `val` of an srgbClr, `lastClr` of a sysClr
CarriedTexts(role) ==
    UNION {{CarriedValue(e.children[i]) :
               i \in {k \in 1..Len(e.children) : Recognized(e.children[k])}} :
              e \in Named(SchemeChildren(raw_theme_xml.root), role)}

\* C19 as stated: every key of the raw colour set is one of the 12 fixed role
\* names and every value is a 6-hex-digit uppercase string with no leading "#".
C19_Original ==
    \A i \in 1..Len(theme_colors) :
        /\ theme_colors[i][1] \in Roles
        /\ IsHex6Upper(theme_colors[i][2])

\* C19 (amended): in every state reachable after extract(), every key of the
\* raw colour set is one of the 12 fixed role names, no key occurs twice, and
\* every value is a non-empty string without lower-case letters: the text of
\* the `val` (srgbClr) or `lastClr` (sysClr) attribute of a colour child of
\* that role's element, upper-cased but otherwise as found, whatever its length
\* and characters. It is a 6-hex-digit uppercase string exactly when that
\* attribute text is six hex digits.
C19_RawSetShape ==
    \A i \in 1..Len(theme_colors) :
        /\ theme_colors[i][1] \in Roles
        /\ \A j \in 1..Len(theme_colors) :
               theme_colors[j][1] = theme_colors[i][1] => j = i
        /\ theme_colors[i][2] # <<>>
        /\ NoLowerCase(theme_colors[i][2])
        /\ raw_theme_xml # NoXml
        /\ \E a \in CarriedTexts(theme_colors[i][1]) :
               /\ SameUpToCase(a, theme_colors[i][2])
               /\ IsHex6Upper(theme_colors[i][2])
                      <=> (Len(a) = 6 /\ IntParses(a))

\* extract() has returned a set holding a role read from val="00f" next to a
\* six-digit one read from a lower-case lastClr
C19_Witness ==
    /\ op.name = "extract"
    /\ err = NoErr
    /\ DictGet(theme_colors, "hlink", None) = <<"0", "0", "F">>
    /\ DictGet(theme_colors, "dk1", None) = V_1A2B3C

\* extract() on a fresh extractor keeps, for every role that carries a value,
\* a carried text of that role as it is up to the case of its letters, whatever
\* its length and characters
ParsedUnvalidated ==
    (/\ op.name = "extract"
     /\ op.pre_self.theme_colors = EmptyDict
     /\ raw_theme_xml # NoXml) =>
        /\ err = NoErr
        /\ \A role \in Roles :
               (\E e \in Named(SchemeChildren(raw_theme_xml.root), role) : HasValue(e))
                   => \E a \in CarriedTexts(role) :
                          /\ a # <<>>
                          /\ SameUpToCase(a, DictGet(theme_colors, role, None))

\* the module written by generate_python_config holds the raw set as it is,
\* and its semantic map the raw value of every role present
ModuleUnvalidated ==
    (/\ op.name = "generate_python_config"
     /\ extract_if_empty(op.pre, op.pre_self).err = NoErr) =>
        /\ err = NoErr
        /\ fs["theme_config.py"].kind = "py"
        /\ fs["theme_config.py"].THEME_COLORS_RAW = theme_colors
        /\ \A k \in 1..Len(COLOR_NAMES) :
               fs["theme_config.py"].THEME_COLORS[k][2] = SlotValue(theme_colors, k)

\* the sidecar written by generate_json_config likewise
SidecarUnvalidated ==
    (/\ op.name = "generate_json_config"
     /\ extract_if_empty(op.pre, op.pre_self).err = NoErr) =>
        /\ err = NoErr
        /\ fs["theme_colors.json"].kind = "json"
        /\ fs["theme_colors.json"].raw_colors = theme_colors
        /\ \A k \in 1..Len(COLOR_NAMES) :
               fs["theme_colors.json"].semantic_mapping[k][2]
                   = SlotValue(theme_colors, k)

\* C20: no validation of length or charset: any attribute value found on a
\* recognised colour definition passes into the raw colour set, and from there
\* into the semantic map and both emitted artifacts, without an error being
\* raised, in the library calls and in a command-line run alike.
C20_PassThrough ==
    /\ ParsedUnvalidated
    /\ ModuleUnvalidated
    /\ SidecarUnvalidated
    /\ MainExtracted =>
           /\ err = NoErr
           /\ fs["theme_config.py"].kind = "py"
           /\ fs["theme_config.py"].THEME_COLORS_RAW = theme_colors
           /\ fs["theme_colors.json"].kind = "json"
           /\ fs["theme_colors.json"].raw_colors = theme_colors

\* What holds of C20: extract(), generate_python_config and
\* generate_json_config validate nothing and raise nothing.
C20_LibraryPassThrough ==
    /\ ParsedUnvalidated
    /\ ModuleUnvalidated
    /\ SidecarUnvalidated

\* a three-character value has reached the generated module
C20_MalformedEmitted ==
    /\ op.name = "generate_python_config"
    /\ err = NoErr
    /\ DictGet(fs["theme_config.py"].THEME_COLORS_RAW, "hlink", None)
           = <<"0", "0", "F">>
    /\ fs["theme_config.py"].THEME_COLORS[11][2] = <<"0", "0", "F">>

-----------------------------------------------------------------------------
(* Claims on repeated extraction                                           *)

\* two dicts with the same keys and the same value at every key
DictSame(a, b) ==
    /\ DictKeys(a) = DictKeys(b)
    /\ \A k \in DictKeys(a) : DictGet(a, k, None) = DictGet(b, k, None)

\* what a new extractor built on the template as it was at the call extracts
FreshlyExtracted == extract(op.pre, construct(op.pre, "template.pptx").self).self

\* C21: after any sequence of extract() calls on one extractor, the template
\* file possibly modified between calls, theme_colors and font_scheme hold
\* exactly the roles found by the most recent extraction, nothing carried over
\* from an earlier one.
C21_FreshEachRun ==
    (op.name = "extract" /\ err = NoErr) =>
        /\ DictSame(theme_colors, FreshlyExtracted.theme_colors)
        /\ DictSame(font_scheme, FreshlyExtracted.font_scheme)

\* What holds instead: an extraction adds to what the object held and never
\* removes; the theme name and the raw XML alone are the latest ones.
C21_Accumulates ==
    (op.name = "extract" /\ err = NoErr) =>
        /\ DictKeys(theme_colors)
               = DictKeys(op.pre_self.theme_colors)
                 \cup DictKeys(FreshlyExtracted.theme_colors)
        /\ \A k \in DictKeys(FreshlyExtracted.theme_colors) :
               DictGet(theme_colors, k, None)
                   = DictGet(FreshlyExtracted.theme_colors, k, None)
        /\ DictKeys(font_scheme)
               = DictKeys(op.pre_self.font_scheme)
                 \cup DictKeys(FreshlyExtracted.font_scheme)
        /\ theme_name = FreshlyExtracted.theme_name
        /\ raw_theme_xml = FreshlyExtracted.raw_theme_xml

\* the second extraction, from a rewritten template that holds accent2 only
\* and no font, still reports the first template's dk1, accent1 and fonts
C21_StaleRoles ==
    /\ op.name = "extract"
    /\ err = NoErr
    /\ raw_theme_xml = OTHER_DOC
    /\ DictKeys(theme_colors) = {"dk1", "accent1", "accent2"}
    /\ DictKeys(font_scheme) = {"majorFont", "minorFont"}

-----------------------------------------------------------------------------
(* Claims on where the applier writes                                      *)

\* copy mode or patch mode has returned
ApplierDone ==
    /\ op.name \in {"copy_theme_from_template", "apply_colors_to_theme_xml"}
    /\ err = NoErr

\* the tree the call re-zips, which no output path enters
WrittenTree ==
    IF op.name = "copy_theme_from_template"
    THEN copied_tree(ExtractAll(op.pre[op.template]), ExtractAll(op.pre[op.target]))
    ELSE patched_tree(ExtractAll(op.pre[op.target]), applier_colors)

\* the archive is a re-zip of the tree: its files, each once, in a walk order
IsRepackagingOf(zip, tree) ==
    /\ zip.kind = "zip"
    /\ MembersOf(zip) = Files(tree)
    /\ Len(zip.members) = Cardinality(Files(tree))
    /\ IsWalkOrder(zip.members)

\* C22: for copy mode and patch mode, when no output path is given the result
\* is written over the target package path and that path is returned; when an
\* output path different from the target and the template path is given, the
\* result is written there, that path is returned, and the target package file
\* and the template package file are unchanged.
C22_OutputPlacement ==
    ApplierDone =>
        /\ op.output_arg = NoPath =>
               /\ ret = op.target
               /\ IsRepackagingOf(fs[op.target], WrittenTree)
               /\ log[Len(log) - 1] = Ev("write", op.target)
               /\ \A p \in DOMAIN fs \ {op.target} : fs[p] = op.pre[p]
        /\ op.output_arg \notin {NoPath, op.target, "template.pptx"} =>
               /\ ret = op.output_arg
               /\ IsRepackagingOf(fs[op.output_arg], WrittenTree)
               /\ log[Len(log) - 1] = Ev("write", op.output_arg)
               /\ fs[op.target] = op.pre[op.target]
               /\ fs["template.pptx"] = op.pre["template.pptx"]
               /\ \A p \in DOMAIN fs \ {op.output_arg} : fs[p] = op.pre[p]
        /\ \A i \in 1..Len(log) : log[i].ev = "write" => i = Len(log) - 1

\* copy mode has written out.pptx, a package that differs from the target,
\* which is as it was
C22_Witness ==
    /\ op.name = "copy_theme_from_template"
    /\ err = NoErr
    /\ op.output_arg = "out.pptx"
    /\ ret = "out.pptx"
    /\ op.pre["out.pptx"] = NoFile
    /\ fs["out.pptx"] # NoFile
    /\ fs["out.pptx"] # fs["target.pptx"]
    /\ fs["target.pptx"] = op.pre["target.pptx"]

\* patch mode without an output path has rewritten the target in place
C22_WitnessInPlace ==
    /\ op.name = "apply_colors_to_theme_xml"
    /\ err = NoErr
    /\ op.output_arg = NoPath
    /\ ret = "target.pptx"
    /\ fs["target.pptx"] # op.pre["target.pptx"]
    /\ fs["out.pptx"] = NoFile

-----------------------------------------------------------------------------
(* Claims on what copy mode leaves alone                                   *)

\* the files of an archive below none of the three subtrees
Outside(zip) ==
    {m \in MembersOf(zip) :
        /\ m.data.kind # "dir"
        /\ \A dir \in Subtrees : ~StartsWith(m.name, dir)}

\* C23: in copy mode, every file of the target package outside ppt/theme,
\* ppt/slideMasters and ppt/slideLayouts is in the output package at the same
\* relative path with the same content, and the output holds no file other
\* than those and the files of the three subtrees, each path once.
C23_OutsideKept ==
    CopyDone =>
        /\ Outside(CopyOutput) = Outside(CopyTarget)
        /\ \A m \in MembersOf(CopyOutput) :
               \/ m \in Outside(CopyTarget)
               \/ \E dir \in Subtrees :
                      m \in Inside(CopyTemplate, dir) \cup Inside(CopyTarget, dir)
        /\ Cardinality(Names(MembersOf(CopyOutput))) = Len(CopyOutput.members)

\* the target's presentation.xml is in an output whose theme is the template's
C23_Witness ==
    /\ CopyDone
    /\ Member(N_PRESENTATION, Bin(23)) \in MembersOf(CopyTarget)
    /\ Member(N_PRESENTATION, Bin(23)) \in MembersOf(CopyOutput)
    /\ Member(THEME1_PATH, SYS_DOC) \in MembersOf(CopyTarget)
    /\ Member(THEME1_PATH, TWO_ROLE_DOC) \in MembersOf(CopyOutput)
    /\ Len(CopyOutput.members) = 2

-----------------------------------------------------------------------------
(* Claims on the font scheme                                               *)

IsFontScheme(elem) == elem.local = "fontScheme"

\* the children of every font-scheme element of the document, in order
FontSchemeChildren(root) == ChildrenOfAll(SelectSeq(Iter(root), IsFontScheme))

\* the non-empty typefaces of the `latin` children of the font-role elements
\* named `role`
LatinTypefaces(root, role) ==
    UNION {{AttrGet(e.children[i], "typeface", <<>>) :
               i \in {k \in 1..Len(e.children) :
                         /\ e.children[k].local = "latin"
                         /\ AttrGet(e.children[k], "typeface", <<>>) # <<>>}} :
              e \in Named(FontSchemeChildren(root), role)}

RECURSIVE WithoutColours(_), WithoutColoursIn(_)
\* the document with every colour scheme emptied
WithoutColours(elem) ==
    [elem EXCEPT !.children = IF elem.local = "clrScheme" THEN <<>>
                              ELSE WithoutColoursIn(elem.children)]
WithoutColoursIn(elems) ==
    IF elems = <<>> THEN <<>>
    ELSE <<WithoutColours(Head(elems))>> \o WithoutColoursIn(Tail(elems))

\* C24: the extracted font scheme has keys only from majorFont and minorFont;
\* a role is present if and only if a font-role element of that name inside a
\* font-scheme element has a `latin` child with a non-empty typeface, and its
\* value is that typeface; no default is substituted; and the font result is
\* the same whichever colour roles were found.
C24_FontScheme ==
    FreshExtractDone =>
        /\ DictKeys(font_scheme) \subseteq {"majorFont", "minorFont"}
        /\ \A role \in {"majorFont", "minorFont"} :
               /\ DictHas(font_scheme, role)
                      <=> LatinTypefaces(raw_theme_xml.root, role) # {}
               /\ DictHas(font_scheme, role) =>
                      DictGet(font_scheme, role, None)
                          \in LatinTypefaces(raw_theme_xml.root, role)
        /\ font_scheme
               = parse_theme_elements(WithoutColours(raw_theme_xml.root),
                                      EmptyDict, EmptyDict)[2]

\* both fonts extracted from a theme in which no colour role was found
C24_Witness ==
    /\ FreshExtractDone
    /\ theme_colors = EmptyDict
    /\ font_scheme = <<<<"majorFont", V_Calibri>>, <<"minorFont", V_Arial>>>>

\* a theme whose majorFont has an empty typeface and whose minorFont has no
\* latin child yields no font at all, next to a colour that was found
C24_WitnessAbsent ==
    /\ FreshExtractDone
    /\ theme_colors # EmptyDict
    /\ FontSchemeChildren(raw_theme_xml.root) # <<>>
    /\ font_scheme = EmptyDict

-----------------------------------------------------------------------------
(* Claims on the script executors                                          *)

\* the substrings C25 lists for an executor: the seven common ones and the
\* format's save pattern
Denylisted(executor) ==
    {P_IMPORT_OS, P_IMPORT_SYS, P_IMPORT_SUBPROCESS, P_DUNDER_IMPORT, P_EVAL,
     P_EXEC, P_OPEN}
    \cup (IF executor = "excel_processor" THEN {P_WB_SAVE} ELSE {P_SAVE})

\* the messages with which the validators turn a script down
ValidatorMessages ==
    {MSG_EMPTY, MSG_PPTX_DECK, MSG_POWERPOINT_DECK, MSG_POWERPOINT_SAVE, MSG_EXCEL_WB}
    \cup {PPTX_DANGEROUS[i][2] : i \in 1..Len(PPTX_DANGEROUS)}
    \cup {POWERPOINT_DANGEROUS[i][2] : i \in 1..Len(POWERPOINT_DANGEROUS)}
    \cup {EXCEL_DANGEROUS[i][2] : i \in 1..Len(EXCEL_DANGEROUS)}

ExecReached == \E i \in 1..Len(log) : log[i].ev = "exec"

C25_Unvalidated ==
    /\ op.name = "execute"
    /\ ~op.validate
    /\ op.script = W_DECK \o P_EVAL
    /\ ExecReached

\* powerpoint_processor tests .save( after the deck requirement: a script
\* with .save( that names no deck is turned down with the deck message
C25_SaveAfterDeck ==
    /\ op.name = "execute"
    /\ op.validate
    /\ op.executor = "powerpoint_processor"
    /\ op.script = P_SAVE
    /\ ret.error_message = MSG_POWERPOINT_DECK
    /\ ~ExecReached

-----------------------------------------------------------------------------
(* Claims on the round trips                                               *)

\* a new extractor built on out.pptx has run extract()
OutExtracted ==
    /\ op.name = "extract"
    /\ template_path = "out.pptx"
    /\ op.pre_self.theme_colors = EmptyDict
    /\ op.pre_self.font_scheme = EmptyDict

\* a new extractor built on the file and run
ExtractionOf(path) == extract(fs, construct(fs, path).self)

\* the root of the theme the extractor finds in the package that was patched
PatchedThemeRoot == ZipRead(fs["target.pptx"], find_theme_path(fs["target.pptx"])).root

\* the role has an element in a colour scheme of the package's theme
RoleElementExists(role) ==
    /\ find_theme_path(fs["target.pptx"]) # None
    /\ Named(SchemeChildren(PatchedThemeRoot), role) # {}

RoleElements(role) ==
    SelectSeq(SchemeChildren(ThemeRootOf(fs["target.pptx"])),
              LAMBDA e : e.local = role)

\* patch mode rewrites the role: theme1.xml exists and the first colour scheme
\* of the document has an element of that name
RoleRewritten(role) ==
    /\ THEME1_PATH \in Names(MembersOf(fs["target.pptx"]))
    /\ SelectSeq(Iter(ThemeRootOf(fs["target.pptx"])), IsClrScheme) # <<>>
    /\ \E k \in 1..Len(SelectSeq(Iter(ThemeRootOf(fs["target.pptx"])),
                                 IsClrScheme)[1].children) :
           SelectSeq(Iter(ThemeRootOf(fs["target.pptx"])),
                     IsClrScheme)[1].children[k].local = role

\* an element of that name after the first one carries a value
LaterValue(role) ==
    \E q \in 2..Len(RoleElements(role)) : HasValue(RoleElements(role)[q])

C26_LaterSchemeWins ==
    /\ OutExtracted
    /\ err = NoErr
    /\ DictGet(applier_colors, "dk1", None) = V_123456
    /\ RoleRewritten("dk1")
    /\ DictGet(theme_colors, "dk1", None) = V_AAAAAA

\* extraction from the template of the copy
FromTemplate == ExtractionOf("template.pptx")

\* the extractor holds what extraction from the template returns
SameAsTemplate ==
    /\ err = NoErr
    /\ theme_colors = FromTemplate.self.theme_colors
    /\ font_scheme = FromTemplate.self.font_scheme
    /\ theme_name = FromTemplate.self.theme_name

C27_ThemeLeftBehind ==
    /\ OutExtracted
    /\ FromTemplate.err = NoErr
    /\ ~SameAsTemplate

-----------------------------------------------------------------------------
(* Claims on themes with more than one colour scheme                       *)

\* the root of the theme document the extractor has read
ExtractedRoot == ZipRead(fs[template_path], find_theme_path(fs[template_path])).root

\* the elements named `role` that carry a value, over all colour schemes of the
\* document in document order
ValuedElements(root, role) ==
    SelectSeq(SchemeChildren(root), LAMBDA e : e.local = role /\ HasValue(e))

\* extract(): every colour scheme goes into one map, the last value of a role
\* in document order wins, a role defined only earlier keeps its value
LastValueWins ==
    FreshExtractDone =>
        \A role \in Roles :
            IF ValuedElements(ExtractedRoot, role) = <<>>
            THEN ~DictHas(theme_colors, role)
            ELSE DictGet(theme_colors, role, None)
                     = extract_color_value(
                           ValuedElements(ExtractedRoot, role)[
                               Len(ValuedElements(ExtractedRoot, role))])

\* patch mode: every colour scheme after the first is as it was, and in the
\* first one exactly the first child of each patched name is rewritten
FirstSchemeFirstChild ==
    (PatchDone /\ SchemesBefore # <<>>) =>
        /\ Len(SchemesAfter) = Len(SchemesBefore)
        /\ \A s \in 2..Len(SchemesBefore) : SchemesAfter[s] = SchemesBefore[s]
        /\ Len(SchemesAfter[1].children) = Len(SchemesBefore[1].children)
        /\ \A k \in 1..Len(SchemesBefore[1].children) :
               IF /\ SchemesBefore[1].children[k].local \in PatchedKeys
                  /\ k = FirstNamed(SchemesBefore[1].children,
                                    SchemesBefore[1].children[k].local)
               THEN SchemesAfter[1].children[k]
                        = [SchemesBefore[1].children[k] EXCEPT !.children =
                              <<NewSrgbClr(DictGet(applier_colors,
                                  SchemesBefore[1].children[k].local, None))>>]
               ELSE SchemesAfter[1].children[k] = SchemesBefore[1].children[k]

\* C28: when the theme document holds more than one clrScheme, extract()
\* processes all of them in document order into the same map (the last
\* clrScheme defining a role with a recognised non-empty value wins, a role
\* defined only earlier keeps the earlier value), while patch mode rewrites
\* only the first clrScheme and only the first child matching each role name.
C28_SchemeOrder == LastValueWins /\ FirstSchemeFirstChild

\* the colour schemes of the patched package
OutSchemes == SelectSeq(Iter(ThemeRootOf(fs["out.pptx"])), IsClrScheme)

\* out.pptx has two colour schemes; its first one was patched to dk1 = 123456,
\* extraction returns the later scheme's dk1 = AAAAAA and keeps a role that
\* only the first scheme defines
C28_Witness ==
    /\ OutExtracted
    /\ err = NoErr
    /\ THEME1_PATH \in Names(MembersOf(fs["out.pptx"]))
    /\ Len(OutSchemes) > 1
    /\ \E k \in 1..Len(OutSchemes[1].children) :
           /\ OutSchemes[1].children[k].local = "dk1"
           /\ OutSchemes[1].children[k].children = <<NewSrgbClr(V_123456)>>
    /\ DictGet(theme_colors, "dk1", None) = V_AAAAAA
    /\ \E role \in DictKeys(theme_colors) :
           Named(ChildrenOfAll(Tail(OutSchemes)), role) = {}

-----------------------------------------------------------------------------
(* Claims on what patch mode skips                                         *)

\* the names of the children of each colour scheme, in order
ChildNames(schemes) ==
    [s \in 1..Len(schemes) |->
        [k \in 1..Len(schemes[s].children) |-> schemes[s].children[k].local]]

\* the files of a package: names and contents
FilesOf(zip) == {m \in MembersOf(zip) : m.data.kind # "dir"}

\* apply_colors_to_theme_xml was called on an existing package
PatchCalled ==
    /\ op.name = "apply_colors_to_theme_xml"
    /\ op.pre[op.target] # NoFile

\* the package has no member ppt/theme/theme1.xml
NoTheme1 == THEME1_PATH \notin Names(MembersOf(op.pre[op.target]))

\* theme1.xml is a document in which no pair of the map with a non-empty value
\* finds an element of its name in the first colour scheme
NoPairApplies ==
    /\ ~NoTheme1
    /\ ZipRead(op.pre[op.target], THEME1_PATH).kind = "xml"
    /\ \/ SchemesBefore = <<>>
       \/ \A k \in 1..Len(SchemesBefore[1].children) :
              SchemesBefore[1].children[k].local \notin PatchedKeys

\* C29 as stated: patch mode never adds or removes role elements: the child
\* elements of the colour scheme are the same, by name and order, before and
\* after apply_colors_to_theme_xml; a (role, hex) pair whose role element is
\* missing from the theme, and a package without ppt/theme/theme1.xml, are
\* skipped without error, the output then holding exactly the input's files
\* with unchanged content.
C29_Original ==
    /\ PatchDone => ChildNames(SchemesAfter) = ChildNames(SchemesBefore)
    /\ (PatchCalled /\ (NoTheme1 \/ NoPairApplies)) =>
           /\ err = NoErr
           /\ ret = op.output
           /\ FilesOf(fs[op.output]) = FilesOf(op.pre[op.target])

\* C29 (amended): patch mode never adds or removes role elements: the child
\* elements of every colour scheme are the same, by name and order, before and
\* after apply_colors_to_theme_xml. A package without ppt/theme/theme1.xml is
\* repackaged without error with exactly its files, content unchanged. When
\* no (role, hex) pair of the map finds its role element, the call succeeds as
\* well, with the same file names, every file other than theme1.xml unchanged
\* and theme1.xml parsed and written again: the same elements, attributes and
\* order, in the serialisation of the XML writer.
C29_NothingAddedOrRemoved ==
    /\ PatchDone => ChildNames(SchemesAfter) = ChildNames(SchemesBefore)
    /\ (PatchCalled /\ NoTheme1) =>
           /\ err = NoErr
           /\ ret = op.output
           /\ FilesOf(fs[op.output]) = FilesOf(op.pre[op.target])
    /\ (PatchCalled /\ NoPairApplies) =>
           /\ err = NoErr
           /\ ret = op.output
           /\ Names(FilesOf(fs[op.output])) = Names(FilesOf(op.pre[op.target]))
           /\ OtherFiles(fs[op.output]) = OtherFiles(op.pre[op.target])
           /\ ThemeRootOf(fs[op.output]) = ThemeRootOf(op.pre[op.target])
           /\ ZipRead(fs[op.output], THEME1_PATH)
                  = update_theme_xml(ZipRead(op.pre[op.target], THEME1_PATH), <<>>)

\* the map's only pair is accent1 = 112233 and the colour scheme has role
\* elements but no accent1: nothing is added, the files are as they were
C29_Witness ==
    /\ PatchCalled
    /\ NoPairApplies
    /\ applier_colors = <<<<"accent1", V_112233>>>>
    /\ SchemesBefore # <<>>
    /\ SchemesBefore[1].children # <<>>
    /\ err = NoErr
    /\ Named(SchemeChildren(ThemeRootOf(fs[op.output])), "accent1") = {}
    /\ ThemeRootOf(fs[op.output]) = ThemeRootOf(op.pre[op.target])
    /\ OtherFiles(fs[op.output]) = OtherFiles(op.pre[op.target])
    /\ OtherFiles(fs[op.output]) # {}

\* a package with files but no theme1.xml is repackaged as it is
C29_WitnessNoTheme ==
    /\ PatchCalled
    /\ NoTheme1
    /\ err = NoErr
    /\ FilesOf(op.pre[op.target]) # {}
    /\ FilesOf(fs[op.output]) = FilesOf(op.pre[op.target])

-----------------------------------------------------------------------------
(* Claims on when the generators extract                                   *)

\* a generator was called
GeneratorCalled == op.name \in {"generate_python_config", "generate_json_config"}

\* the call opened the template, as extract() does
TemplateOpened == Ev("open", template_path) \in Events

\* what an artifact describes: raw colours, semantic map, fonts, theme name
Described(artifact) ==
    IF artifact.kind = "py"
    THEN <<artifact.THEME_COLORS_RAW, artifact.THEME_COLORS, artifact.THEME_FONTS,
           artifact.theme_name>>
    ELSE <<artifact.raw_colors, artifact.semantic_mapping, artifact.fonts,
           artifact.theme_name>>

\* what the extractor held describes
Held(self) ==
    <<self.theme_colors, get_color_mapping(self.theme_colors), self.font_scheme,
      self.theme_name>>

\* the file the generator writes
ArtifactOf(name) ==
    IF name = "generate_python_config" THEN "theme_config.py" ELSE "theme_colors.json"

\* extract() is called exactly when theme_colors is empty at the call
ExtractsWhenEmpty ==
    GeneratorCalled => (TemplateOpened <=> op.pre_self.theme_colors = EmptyDict)

\* with colours held the generator succeeds, leaves the extractor as it is and
\* writes what is held, whatever the template file now holds
EmitsWhatIsHeld ==
    (GeneratorCalled /\ op.pre_self.theme_colors # EmptyDict) =>
        /\ err = NoErr
        /\ Extractor = op.pre_self
        /\ Described(fs[ArtifactOf(op.name)]) = Held(op.pre_self)

\* a generator called right after the other one, colours being held, writes an
\* artifact that describes the same as the other's
BothDescribeTheSame ==
    (/\ GeneratorCalled
     /\ err = NoErr
     /\ theme_colors # EmptyDict
     /\ op'.name \in {"generate_python_config", "generate_json_config"} \ {op.name})
        => /\ err' = NoErr
           /\ fs'["template.pptx"] = fs["template.pptx"]
           /\ Described(fs'["theme_config.py"]) = Described(fs'["theme_colors.json"])

\* C30: generate_python_config and generate_json_config call extract() exactly
\* when theme_colors is empty at the time of the call, which includes the call
\* after a successful extraction that found no colour role; when it is
\* non-empty they emit the values held without reading the template again, so
\* both artifacts written after one extraction describe the same raw colours,
\* semantic map, fonts and theme name.
C30_ExtractWhenEmpty ==
    /\ [](ExtractsWhenEmpty /\ EmitsWhatIsHeld)
    /\ [][BothDescribeTheSame]_vars

\* an extraction had found fonts and a name but no colour role: the generator
\* extracts again
C30_Witness ==
    /\ GeneratorCalled
    /\ op.pre_self.raw_theme_xml # NoXml
    /\ op.pre_self.font_scheme # EmptyDict
    /\ op.pre_self.theme_colors = EmptyDict
    /\ TemplateOpened
    /\ err = NoErr

\* colours are held and the template has been rewritten since: the artifact
\* describes what is held, not what the file holds now
C30_WitnessHeld ==
    /\ GeneratorCalled
    /\ op.pre_self.theme_colors # EmptyDict
    /\ ~TemplateOpened
    /\ ExtractionOf("template.pptx").self.theme_colors # theme_colors
    /\ Described(fs[ArtifactOf(op.name)]) = Held(Extractor)

\* both artifacts exist, written one after the other from the values held
C30_WitnessBoth ==
    /\ op.name = "generate_json_config"
    /\ err = NoErr
    /\ ~TemplateOpened
    /\ fs["theme_config.py"] # NoFile
    /\ Described(fs["theme_config.py"]) = Described(fs["theme_colors.json"])

====
